---- MODULE Spec2Model ----
(***************************************************************************)
(* Model of the HPTDC decoder of metro_eval:                               *)
(*   metro2hdf/_process_hptdc.py  word codec, marker scanner / table       *)
(*                                rebuilder, header resolver, table store, *)
(*                                step streamer                            *)
(*   data/sort_events.py          event classifier and its batching loop   *)
(* Byte offsets, slice bounds and indices are 0-based as in the Python     *)
(* source; Slice converts to the 1-based sequences of TLA+.                *)
(***************************************************************************)
EXTENDS Integers, Sequences, FiniteSets, TLC

VARIABLES
    \* codec: one call of convert_hptdc_group_data_decoded
    cv_pc, inp, outp,
    \* classifier: the words of one step, and the locals of analyze_words_python
    words, events, az_pc, word_idx, cur_event_E, cur_event_P,
    az_n_events, e_counter, p_counter,
    \* batching loop of run() for one step
    rn_pc, par2, batch, word_start, n_events, bufs, slices, out_step,
    \* the channel file and the warnings emitted while it is processed
    file, warnings,
    \* rebuild_hptdc_tables: its arguments, locals and return value
    rb_pc, scan_marker, step_marker, data_end, read_length,
    data_begin, marker_pos, rb_result,
    \* process_hptdc: its arguments, locals, the sink and its outcome
    pr_pc, chunk_size, word_format, ignore_tables, hdr, step_tables, tables_src,
    scan_idx, step_idx, fp, h5step, attrs, groups, result,
    \* process_run: the channels of a run, the loop and the output file
    mr_pc, channels, verbose, progress, skipped, h5f

codecVars == <<cv_pc, inp, outp>>
analyzeVars == <<az_pc, word_idx, cur_event_E, cur_event_P,
                 az_n_events, e_counter, p_counter>>
runVars == <<rn_pc, par2, batch, word_start, n_events, bufs, slices, out_step>>
classVars == <<words, events, analyzeVars, runVars>>
rebuildVars == <<rb_pc, scan_marker, step_marker, data_end, read_length,
                 data_begin, marker_pos, rb_result>>
fileVars == <<file, warnings>>
procVars == <<pr_pc, chunk_size, word_format, ignore_tables, hdr, step_tables,
              tables_src, scan_idx, step_idx, fp, h5step, attrs, groups, result>>
mainVars == <<mr_pc, channels, verbose, progress, skipped, h5f>>
vars == <<codecVars, classVars, fileVars, rebuildVars, procVars, mainVars>>

\* the components that a specification does not exercise stay at rest
CodecIdle == cv_pc = "off" /\ inp = << >> /\ outp = << >>

AnalyzeIdle ==
    /\ az_pc = "off" /\ word_idx = 0 /\ cur_event_E = << >> /\ cur_event_P = << >>
    /\ az_n_events = 0 /\ e_counter = 0 /\ p_counter = 0

RunIdle ==
    /\ rn_pc = "off" /\ par2 = "P" /\ batch = 0 /\ word_start = 0 /\ n_events = 0
    /\ bufs = << >> /\ slices = << >> /\ out_step = << >>

ClassIdle == words = << >> /\ events = << >> /\ AnalyzeIdle /\ RunIdle

FileIdle == file = << >> /\ warnings = << >>

RebuildIdle ==
    /\ rb_pc = "off" /\ scan_marker = << >> /\ step_marker = << >>
    /\ data_end = 0 /\ read_length = 0 /\ data_begin = 0
    /\ marker_pos = << >> /\ rb_result = << >>

ProcIdle ==
    /\ pr_pc = "off" /\ chunk_size = 0 /\ word_format = "" /\ ignore_tables = FALSE
    /\ hdr = << >> /\ step_tables = << >> /\ tables_src = "" /\ scan_idx = 0
    /\ step_idx = 0 /\ fp = 0 /\ h5step = << >> /\ attrs = << >> /\ groups = << >>
    /\ result = ""

MainIdle ==
    /\ mr_pc = "off" /\ channels = << >> /\ verbose = FALSE /\ progress = 0
    /\ skipped = << >> /\ h5f = << >>

\* what the actions of each component leave alone
notCodec == <<classVars, fileVars, rebuildVars, procVars, mainVars>>
notClass == <<codecVars, fileVars, rebuildVars, procVars, mainVars>>
notRebuild == <<codecVars, classVars, procVars, mainVars>>
notProc == <<codecVars, classVars, rebuildVars, mainVars>>
notMain == <<codecVars, classVars, rebuildVars>>

(***************************************************************************)
(* Python / numpy primitives                                               *)
(***************************************************************************)
Min(a, b) == IF a < b THEN a ELSE b
Max(a, b) == IF a > b THEN a ELSE b

\* Integers of the checker are 32-bit signed, so an unsigned 32-bit word
\* ("<u4") is kept as its four little-endian bytes, as it lies in the file.
\* WBit(w, i) is bit i of the word (bit 0 the least significant).
WBit(w, i) == (w[(i \div 8) + 1] \div (2 ^ (i % 8))) % 2

Bit(x, i) == (x \div (2 ^ i)) % 2

\* 1 << n on Python integers
Shl(x, n) == x * (2 ^ n)

RECURSIVE SumBits(_, _, _, _)
\* sum of WBit(w, i) * m(i) * 2^(i - n) for i in from..to
SumBits(w, mask, from, to) ==
    IF from > to THEN 0
    ELSE WBit(w, to) * Bit(mask, to) * (2 ^ to) + SumBits(w, mask, from, to - 1)

\* w >> n for a "<u4" word and 1 <= n <= 32
ShrU32(w, n) ==
    LET RECURSIVE up(_)
        up(i) == IF i > 31 THEN 0 ELSE WBit(w, i) * (2 ^ (i - n)) + up(i + 1)
    IN  up(n)

\* w & mask for a "<u4" word and a mask below 2^31
AndU32(w, mask) == SumBits(w, mask, 0, 30)

\* ndarray.astype to a signed integer type of bits width, from a value
\* below 2^31: wraps modulo 2^bits
AsSigned(v, bits) ==
    IF bits >= 32 THEN v
    ELSE LET m == v % (2 ^ bits)
         IN  IF m >= 2 ^ (bits - 1) THEN m - 2 ^ bits ELSE m

\* "<u4" word astype("i4"): the same 32 bits read as two's complement
U32AsI4(w) ==
    LET RECURSIVE low(_)
        low(i) == IF i > 30 THEN 0 ELSE WBit(w, i) * (2 ^ i) + low(i + 1)
    IN  IF WBit(w, 31) = 1 THEN (low(0) - 2 ^ 30) - 2 ^ 30 ELSE low(0)

\* seq[a:b] of Python (0-based, half open, clamped to the sequence)
Slice(s, a, b) ==
    LET lo == Max(a, 0)
        hi == Min(b, Len(s))
    IN  IF lo >= hi THEN << >> ELSE SubSeq(s, lo + 1, hi)

Digits == <<"0", "1", "2", "3", "4", "5", "6", "7", "8", "9">>

\* str(v) of an integer, as its sequence of characters
RECURSIVE Str(_)
Str(v) ==
    IF v < 0 THEN <<"-">> \o Str(0 - v)
    ELSE IF v < 10 THEN <<Digits[v + 1]>>
    ELSE Str(v \div 10) \o <<Digits[(v % 10) + 1]>>

\* sep.join(parts), texts as sequences of characters
RECURSIVE Join(_, _)
Join(sep, parts) ==
    IF Len(parts) = 0 THEN << >>
    ELSE IF Len(parts) = 1 THEN parts[1]
    ELSE parts[1] \o sep \o Join(sep, Tail(parts))

StrAll(vals) == [i \in DOMAIN vals |-> Str(vals[i])]

(***************************************************************************)
(* Word codec                                                              *)
(***************************************************************************)
NoArg == << >>

HptdcWordDefinitions ==
    [FL |-> [type_len |-> 2, type_val |-> 2,
             arg1 |-> <<29, 24>>, arg2 |-> NoArg, arg3 |-> <<23, 0>>],
     RS |-> [type_len |-> 2, type_val |-> 3,
             arg1 |-> <<29, 24>>, arg2 |-> NoArg, arg3 |-> <<23, 0>>],
     ER |-> [type_len |-> 2, type_val |-> 1,
             arg1 |-> <<29, 24>>, arg2 |-> <<23, 16>>, arg3 |-> <<15, 0>>],
     GR |-> [type_len |-> 4, type_val |-> 0,
             arg1 |-> <<27, 24>>, arg2 |-> NoArg, arg3 |-> <<23, 0>>],
     RL |-> [type_len |-> 8, type_val |-> 16,
             arg1 |-> NoArg, arg2 |-> NoArg, arg3 |-> <<23, 0>>],
     LV |-> [type_len |-> 5, type_val |-> 3,
             arg1 |-> <<26, 21>>, arg2 |-> NoArg, arg3 |-> <<20, 0>>]]

\* iteration order of the dict
WordTypes == <<"FL", "RS", "ER", "GR", "RL", "LV">>

\* HptdcDecodedWord: field widths in bits of arg1, arg2, arg3
ArgBits == [arg1 |-> 8, arg2 |-> 8, arg3 |-> 32]

bitmask(start, end) == Shl(Shl(1, start - end) - 1, end)

\* numpy.zeros_like(inp, dtype=HptdcDecodedWord), one element
ZeroWord == [type |-> "", arg1 |-> 0, arg2 |-> 0, arg3 |-> 0]

\* a plausible slip: the prefix is tested with & in place of numpy.equal
type_mask_and(w, type_def) ==
    LET x == ShrU32(w, 32 - type_def.type_len)
    IN  \A i \in 0..7 : Bit(type_def.type_val, i) = 1 => Bit(x, i) = 1

type_mask(w, type_def) == ShrU32(w, 32 - type_def.type_len) = type_def.type_val

\* the value placed into one argument slot of a matching word
ExtractArg(w, arg_def, arg_name) ==
    AsSigned(AndU32(w, bitmask(arg_def[1], arg_def[2])) \div (2 ^ arg_def[2]),
             ArgBits[arg_name])

\* body of the loop over HptdcWordDefinitions for one element of inp
PlaceType(o, w, type_str) ==
    LET type_def == HptdcWordDefinitions[type_str]
        placed(arg_name, old) ==
            IF type_def[arg_name] = NoArg THEN old
            ELSE ExtractArg(w, type_def[arg_name], arg_name)
    IN  IF type_mask(w, type_def)
        THEN [type |-> type_str,
              arg1 |-> placed("arg1", o.arg1),
              arg2 |-> placed("arg2", o.arg2),
              arg3 |-> placed("arg3", o.arg3)]
        ELSE o

RECURSIVE PlaceTypes(_, _, _)
PlaceTypes(o, w, k) ==
    IF k > Len(WordTypes) THEN o
    ELSE PlaceTypes(PlaceType(o, w, WordTypes[k]), w, k + 1)

\* a plausible slip: known_mask = type_mask instead of known_mask |= type_mask
known_mask_last(w) == type_mask(w, HptdcWordDefinitions[WordTypes[Len(WordTypes)]])

known_mask(w) ==
    \E k \in 1..Len(WordTypes) : type_mask(w, HptdcWordDefinitions[WordTypes[k]])

\* the unknown_mask branch for one element
PlaceUnknown(o, w) ==
    IF ~known_mask(w)
    THEN [o EXCEPT !.type = "??", !.arg3 = U32AsI4(w)]
    ELSE o

DecodeWord(w) == PlaceUnknown(PlaceTypes(ZeroWord, w, 1), w)

convert_hptdc_group_data_decoded(a) == [i \in DOMAIN a |-> DecodeWord(a[i])]

convert_hptdc_group_data_raw(data) == data

(***************************************************************************)
(* Marker scanner / table rebuilder: rebuild_hptdc_tables                  *)
(***************************************************************************)
\* b"HPTDC"
Magic == <<72, 80, 84, 68, 67>>

GroupScanMarker == <<0, 0, 0, 0, 160, 0, 0, 0>>
GroupStepMarker == <<0, 0, 0, 0, 176, 0, 0, 0>>

\* length of the window searched for the first scan marker
AlignWindow == 2048

\* fp.read(n) at position pos, n >= 0
Read(f, pos, n) == Slice(f, pos, pos + n)

SetMin(S) == CHOOSE i \in S : \A j \in S : i <= j

\* bytes.find: the first index of needle in hay, or -1
Find(hay, needle) ==
    LET hits == {i \in 0..(Len(hay) - Len(needle)) :
                    Slice(hay, i, i + Len(needle)) = needle}
    IN  IF hits = {} THEN 0 - 1 ELSE SetMin(hits)

\* lines 76-85: data_begin, or -1. An index at or beyond len(buf) gives an
\* empty slice, which equals no marker, so the search stops at len(buf).
\* a plausible slip: the search starts right behind the magic but
\* data_begin omits the 5 bytes of the magic
FindDataBegin_nomagic(f, scan_mk) ==
    LET buf == Read(f, 5, AlignWindow)
        n == Len(scan_mk)
        hits == {i \in 0..(Min(AlignWindow - n, Len(buf)) - 1) :
                    Slice(buf, i, i + n) = scan_mk}
    IN  IF hits = {} THEN 0 - 1 ELSE SetMin(hits)

FindDataBegin(f, scan_mk) ==
    LET buf == Read(f, 5, AlignWindow)
        n == Len(scan_mk)
        hits == {i \in 0..(Min(AlignWindow - n, Len(buf)) - 1) :
                    Slice(buf, i, i + n) = scan_mk}
    IN  IF hits = {} THEN 0 - 1 ELSE 5 + SetMin(hits)

\* lines 114-140: the inner loop over one buffer; gives buf, offset and
\* marker_pos as the loop leaves them
RECURSIVE SearchBuffer(_, _, _, _, _, _, _)
SearchBuffer(buf, buf_len, buf_pos, offset, mp, scan_mk, step_mk) ==
    IF ~(buf_pos < buf_len)
    THEN [buf |-> buf, offset |-> offset, marker_pos |-> mp]
    ELSE
      LET next_scan_pos == Find(Slice(buf, buf_pos, Len(buf)), scan_mk)
          next_step_pos == Find(Slice(buf, buf_pos, Len(buf)), step_mk)
      IN  IF next_scan_pos < 0 /\ next_step_pos < 0
          THEN LET margin_pos ==
                       Max(buf_pos, Len(buf) - Max(Len(scan_mk), Len(step_mk)))
               IN  [buf |-> Slice(buf, margin_pos, Len(buf)),
                    offset |-> offset + margin_pos,
                    marker_pos |-> mp]
          ELSE
            LET scan_first ==
                    next_scan_pos > 0 - 1
                    /\ (next_scan_pos < next_step_pos \/ next_step_pos < 0)
                mp1 == IF scan_first
                       THEN Append(mp, 0 - (offset + buf_pos + next_scan_pos))
                       ELSE mp
                pos1 == IF scan_first
                        THEN buf_pos + next_scan_pos + Len(scan_mk)
                        ELSE buf_pos
                step_first ==
                    next_step_pos > 0 - 1
                    /\ (next_step_pos < next_scan_pos \/ next_scan_pos < 0)
                mp2 == IF step_first
                       THEN Append(mp1, offset + pos1 + next_step_pos)
                       ELSE mp1
                pos2 == IF step_first
                        THEN pos1 + next_step_pos + Len(step_mk)
                        ELSE pos1
            IN  SearchBuffer(buf, buf_len, pos2, offset, mp2, scan_mk, step_mk)

\* lines 103-112: the outer loop, one read per iteration (the test on
\* r.buf is never true; it makes TLC evaluate the inner loop of this
\* iteration before the next one starts)
RECURSIVE ReadLoop(_, _, _, _, _, _, _, _, _)
ReadLoop(f, pos, eof, buf, offset, mp, scan_mk, step_mk, rl) ==
    IF eof THEN mp
    ELSE LET new_buf == Read(f, pos, rl)
             buf1 == buf \o new_buf
             r == SearchBuffer(buf1, Len(buf1), 0, offset, mp, scan_mk, step_mk)
         IN  IF Len(r.buf) < 0 THEN mp
             ELSE ReadLoop(f, pos + Len(new_buf), Len(new_buf) < rl,
                           r.buf, r.offset, r.marker_pos, scan_mk, step_mk, rl)

\* lines 92-140: marker_pos after the scan that starts at data_begin
ScanMarkers(f, begin, scan_mk, step_mk, rl) ==
    ReadLoop(f, begin, FALSE, << >>, begin, << >>, scan_mk, step_mk, rl)

\* numpy.zeros((step_count,), dtype=HptdcStepEntry)
ZeroEntry == [value |-> << >>, data_offset |-> 0, data_size |-> 0]

\* str(float(step_i)) for a non-negative integer step_i
StrFloat(k) == Str(k) \o <<".", "0">>

\* text.encode("ascii") for the characters of a number
AsciiCode(c) ==
    IF c = "." THEN 46
    ELSE IF c = "-" THEN 45
    ELSE 47 + (CHOOSE d \in 1..10 : Digits[d] = c)

EncodeAscii(text) == [i \in DOMAIN text |-> AsciiCode(text[i])]

\* lines 153-157: the number of step markers that follow marker i (1-based)
RECURSIVE StepCount(_, _)
StepCount(mp, j) ==
    IF j > Len(mp) \/ mp[j] < 0 THEN 0 ELSE 1 + StepCount(mp, j + 1)

\* lines 147-176: the loop over the markers, marker i being mp[i + 1]
RECURSIVE ReduceMarkers(_, _, _, _, _, _)
ReduceMarkers(mp, i, scan_i, step_i, tables, d_end) ==
    IF i >= Len(mp)
    THEN [ok |-> TRUE, scan_count |-> scan_i + 1, step_tables |-> tables]
    ELSE IF mp[i + 1] < 0
    THEN ReduceMarkers(mp, i + 1, scan_i + 1, 0,
                       Append(tables,
                              [k \in 1..StepCount(mp, i + 2) |-> ZeroEntry]),
                       d_end)
    ELSE LET next_marker == IF i + 1 < Len(mp) THEN mp[i + 2] ELSE d_end
             entry == [value |-> EncodeAscii(StrFloat(step_i)),
                       data_offset |-> mp[i + 1],
                       data_size |-> next_marker - mp[i + 1]]
         IN  ReduceMarkers(mp, i + 1, scan_i, step_i + 1,
                           [tables EXCEPT ![scan_i + 1][step_i + 1] = entry],
                           d_end)

BuildTables(mp, d_end) == ReduceMarkers(mp, 0, 0 - 1, 0, << >>, d_end)

\* the whole function: its return value and the warnings it emits
rebuild_hptdc_tables(f, scan_mk, step_mk, d_end, rl) ==
    LET begin == FindDataBegin(f, scan_mk)
    IN  IF begin < 0
        THEN [ok |-> FALSE,
              warnings |-> <<"scanning for markers...",
                             "WARNING: Could not find first scan marker, skipping!">>]
        ELSE [ok |-> TRUE,
              warnings |-> <<"scanning for markers...">>]
             @@ [k \in {"scan_count", "step_tables"} |->
                    BuildTables(ScanMarkers(f, begin, scan_mk, step_mk, rl), d_end)[k]]

(***************************************************************************)
(* Specification of rebuild_hptdc_tables on group-mode files               *)
(***************************************************************************)
\* a file is the magic, 0..MaxPad header bytes and at most MaxSegs segments,
\* each a scan marker, a step marker or one data word; the window of a
\* read is the marker length plus 0..MaxReadExtra bytes
MaxPad == 1
MaxSegs == 4
MaxReadExtra == 8

\* an FL word (arg1 = 1, arg3 = 9), as its little-endian bytes
DataWord == <<9, 0, 0, 129>>

SegKinds == {"scan", "step", "word"}

SegBytes(kind) ==
    IF kind = "scan" THEN GroupScanMarker
    ELSE IF kind = "step" THEN GroupStepMarker
    ELSE DataWord

RECURSIVE ConcatSegs(_)
ConcatSegs(kinds) ==
    IF Len(kinds) = 0 THEN << >>
    ELSE SegBytes(kinds[1]) \o ConcatSegs(Tail(kinds))

FileOf(pad, kinds) == Magic \o [i \in 1..pad |-> 1] \o ConcatSegs(kinds)

RebuildInit ==
    /\ \E pad \in 0..MaxPad, n \in 0..MaxSegs :
          \E kinds \in [1..n -> SegKinds] :
            /\ file = FileOf(pad, kinds)
            /\ data_end \in {Len(file)} \cup
                   {Len(file) - Len(SegBytes(kinds[n])) : k \in {n} \ {0}}
    /\ scan_marker = GroupScanMarker
    /\ step_marker = GroupStepMarker
    /\ read_length \in Len(GroupScanMarker)..(Len(GroupScanMarker) + MaxReadExtra)
    /\ rb_pc = "called"
    /\ warnings = << >>
    /\ data_begin = 0 /\ marker_pos = << >> /\ rb_result = << >>
    /\ CodecIdle /\ ClassIdle /\ ProcIdle /\ MainIdle

\* lines 68-92: the alignment search
RebuildAlign ==
    /\ rb_pc = "called"
    /\ LET begin == FindDataBegin(file, scan_marker)
       IN  /\ data_begin' = begin
           /\ IF begin < 0
              THEN /\ warnings' = warnings \o <<"scanning for markers...",
                                      "WARNING: Could not find first scan marker, skipping!">>
                   /\ rb_result' = [ok |-> FALSE]
                   /\ rb_pc' = "returned"
              ELSE /\ warnings' = Append(warnings, "scanning for markers...")
                   /\ rb_result' = rb_result
                   /\ rb_pc' = "scan"
    /\ UNCHANGED <<file, scan_marker, step_marker, data_end, read_length,
                   marker_pos, notRebuild>>

\* lines 94-140: the scan for markers
RebuildScan ==
    /\ rb_pc = "scan"
    /\ marker_pos' = ScanMarkers(file, data_begin, scan_marker, step_marker,
                                  read_length)
    /\ rb_pc' = "tables"
    /\ UNCHANGED <<file, warnings, scan_marker, step_marker, data_end,
                   read_length, data_begin, rb_result, notRebuild>>

\* lines 142-178: the tables
RebuildTables ==
    /\ rb_pc = "tables"
    /\ rb_result' = BuildTables(marker_pos, data_end)
    /\ rb_pc' = "returned"
    /\ UNCHANGED <<file, warnings, scan_marker, step_marker, data_end,
                   read_length, data_begin, marker_pos, notRebuild>>

RebuildNext == RebuildAlign \/ RebuildScan \/ RebuildTables

SpecRebuild == RebuildInit /\ [][RebuildNext]_vars

(***************************************************************************)
(* Claims about the rebuild                                                *)
(***************************************************************************)
\* the markers of the file at or after offset p, in increasing offset, a
\* scan marker as the negated offset: read off the bytes, position by position
RECURSIVE TrueMarkers(_)
TrueMarkers(p) ==
    IF p + Len(scan_marker) > Len(file) THEN << >>
    ELSE (IF SubSeq(file, p + 1, p + Len(scan_marker)) = scan_marker THEN <<0 - p>>
          ELSE IF SubSeq(file, p + 1, p + Len(step_marker)) = step_marker THEN <<p>>
          ELSE << >>) \o TrueMarkers(p + 1)

Abs(x) == IF x < 0 THEN 0 - x ELSE x

RebuildDone == rb_pc = "returned" /\ rb_result.ok

\* all entries of all tables, in order
RECURSIVE AllEntries(_)
AllEntries(tables) ==
    IF Len(tables) = 0 THEN << >> ELSE tables[1] \o AllEntries(Tail(tables))

\* data_offset and data_size that the claim gives to the steps of a marker list
RECURSIVE StepBounds(_, _)
StepBounds(tm, i) ==
    IF i > Len(tm) THEN << >>
    ELSE (IF tm[i] < 0 THEN << >>
          ELSE <<[data_offset |-> tm[i],
                  data_size |-> (IF i < Len(tm) THEN Abs(tm[i + 1]) ELSE data_end)
                                    - tm[i]]>>)
         \o StepBounds(tm, i + 1)

\* C4: every step entry of the rebuilt tables has data_offset at its step
\* marker and data_size equal to the distance to the next marker of either
\* kind, or to data_end for the last marker.
C4_StepBoundaries ==
    RebuildDone =>
        LET got == AllEntries(rb_result.step_tables)
        IN  [i \in DOMAIN got |->
                [data_offset |-> got[i].data_offset, data_size |-> got[i].data_size]]
            = StepBounds(TrueMarkers(data_begin), 1)

\* C5: the marker list holds every marker at or after data_begin exactly
\* once, in increasing offset, scan markers negated, whatever read_length is.
C5_MarkerList ==
    rb_pc \in {"tables", "returned"} /\ data_begin >= 0 =>
        marker_pos = TrueMarkers(data_begin)

\* the number of step markers between the k-th scan marker and the next one
RECURSIVE StepsPerScan(_, _)
StepsPerScan(tm, i) ==
    IF i > Len(tm) THEN << >>
    ELSE IF tm[i] < 0
    THEN <<Cardinality({j \in (i + 1)..Len(tm) :
                \A m \in (i + 1)..j : tm[m] >= 0})>> \o StepsPerScan(tm, i + 1)
    ELSE StepsPerScan(tm, i + 1)

\* C6: scan_count is the number of scan markers of the stream, there are
\* scan_count tables, and table k has one entry per step marker of scan k.
C6_Counts ==
    RebuildDone =>
        LET per_scan == StepsPerScan(TrueMarkers(data_begin), 1)
        IN  /\ rb_result.scan_count = Len(per_scan)
            /\ Len(rb_result.step_tables) = rb_result.scan_count
            /\ [k \in DOMAIN rb_result.step_tables |-> Len(rb_result.step_tables[k])]
                   = per_scan

\* C18: in the rebuilt tables the k-th step of every scan, counted from 0
\* within its scan, has the label k written as a plain integer: 0, 1, ...
C18_SyntheticLabels ==
    RebuildDone =>
        \A sc \in DOMAIN rb_result.step_tables :
            \A k \in DOMAIN rb_result.step_tables[sc] :
                rb_result.step_tables[sc][k].value = EncodeAscii(Str(k - 1))

\* C30: called with data_end before the end of the file, the rebuild
\* returns only entries that lie in the data section, and no marker at or
\* behind data_end becomes a scan or a step.
C30_InsideDataSection ==
    (RebuildDone /\ data_end < Len(file)) =>
        /\ \A n \in DOMAIN marker_pos : Abs(marker_pos[n]) < data_end
        /\ \A sc \in DOMAIN rb_result.step_tables :
              \A k \in DOMAIN rb_result.step_tables[sc] :
                  LET e == rb_result.step_tables[sc][k]
                  IN  e.data_offset < data_end /\ e.data_offset + e.data_size <= data_end

(***************************************************************************)
(* The alignment search of rebuild_hptdc_tables on files whose first scan  *)
(* marker lies near the start or near the end of the window                *)
(***************************************************************************)
MaxEdge == 3

\* the numbers of bytes between the magic and the first segment: up to
\* MaxEdge, and within MaxEdge of the last place of a whole marker
EdgePads ==
    (0..MaxEdge) \cup
    ((AlignWindow - Len(GroupScanMarker) - MaxEdge)
         ..(AlignWindow - Len(GroupScanMarker) + MaxEdge))

AlignInit ==
    /\ \E pad \in EdgePads, n \in 0..2 :
          \E kinds \in [1..n -> SegKinds] : file = FileOf(pad, kinds)
    /\ data_end = Len(file)
    /\ scan_marker = GroupScanMarker
    /\ step_marker = GroupStepMarker
    /\ read_length = Len(GroupScanMarker)
    /\ rb_pc = "called"
    /\ warnings = << >>
    /\ data_begin = 0 /\ marker_pos = << >> /\ rb_result = << >>
    /\ CodecIdle /\ ClassIdle /\ ProcIdle /\ MainIdle

AlignNext == RebuildAlign

SpecAlign == AlignInit /\ [][AlignNext]_vars

\* the places i of the window at which a whole scan marker lies
MarkerPlaces ==
    LET window == Read(file, 5, AlignWindow)
    IN  {i \in 0..(Len(window) - Len(scan_marker)) :
            SubSeq(window, i + 1, i + Len(scan_marker)) = scan_marker}

\* C23: the search gives data_begin = 5 + i for the smallest place i of a
\* whole scan marker in the 2048 bytes behind the magic, the last place
\* included, and fails only when the window holds no whole scan marker.
C23_AlignmentSearch ==
    rb_pc \in {"scan", "returned"} =>
        IF MarkerPlaces = {}
        THEN rb_pc = "returned" /\ ~rb_result.ok
        ELSE rb_pc = "scan" /\ data_begin = 5 + SetMin(MarkerPlaces)

(***************************************************************************)
(* Channel files: struct layouts of the header, the tables and the records *)
(***************************************************************************)
\* little-endian unsigned and signed integers (struct "<i", "<q", numpy "<i4",
\* "<i8"); values stay below 2^31 in the files of the model
RECURSIVE UIntLE(_)
UIntLE(bs) == IF Len(bs) = 0 THEN 0 ELSE bs[1] + 256 * UIntLE(Tail(bs))

SignedLE(bs) ==
    IF bs[Len(bs)] >= 128
    THEN 0 - (1 + UIntLE([i \in DOMAIN bs |-> 255 - bs[i]]))
    ELSE UIntLE(bs)

RECURSIVE LEBytes(_, _)
LEBytes(v, n) == IF n = 0 THEN << >> ELSE <<v % 256>> \o LEBytes(v \div 256, n - 1)

IntBytes(v, n) ==
    IF v >= 0 THEN LEBytes(v, n)
    ELSE [i \in 1..n |-> 255 - LEBytes(0 - v - 1, n)[i]]

\* b"DATA", b"GRPS", b"HITS"
DataTag == <<68, 65, 84, 65>>
GRPS == <<71, 82, 80, 83>>
HITS == <<72, 73, 84, 83>>

HitsScanMarker ==
    <<255, 255, 255, 255, 255, 255, 255, 255, 255, 160, 0, 0, 0, 0, 0, 0>>
HitsStepMarker ==
    <<255, 255, 255, 255, 255, 255, 255, 255, 255, 176, 0, 0, 0, 0, 0, 0>>

ScanMarkerOf(mode) == IF mode = GRPS THEN GroupScanMarker ELSE HitsScanMarker
StepMarkerOf(mode) == IF mode = GRPS THEN GroupStepMarker ELSE HitsStepMarker

\* itemsize of HptdcRawWord and of HptdcHit
ItemSize(mode) == IF mode = GRPS THEN 4 ELSE 16

\* itemsize of HptdcStepEntry64 and HptdcStepEntry32: a32 value, offset, size
EntrySize(old_style) == IF old_style THEN 40 ELSE 48
FieldSize(old_style) == IF old_style THEN 4 ELSE 8

\* numpy.frombuffer(buf, dtype) for a buffer of whole items: the items
FromBuffer(buf, itemsize) ==
    [i \in 1..(Len(buf) \div itemsize) |->
        SubSeq(buf, (i - 1) * itemsize + 1, i * itemsize)]

\* a bytes field of numpy ("a32") read back: trailing NULs are stripped
RECURSIVE StripNul(_)
StripNul(bs) ==
    IF Len(bs) > 0 /\ bs[Len(bs)] = 0 THEN StripNul(SubSeq(bs, 1, Len(bs) - 1))
    ELSE bs

\* one row of a step table, from its bytes
EntryOf(row, old_style) ==
    LET w == FieldSize(old_style)
    IN  [value |-> StripNul(SubSeq(row, 1, 32)),
         data_offset |-> SignedLE(SubSeq(row, 33, 32 + w)),
         data_size |-> SignedLE(SubSeq(row, 33 + w, 32 + 2 * w))]

\* one HptdcHit, from its bytes, and its projection on time, channel, type, bin
HitOf(rec) ==
    [time |-> SignedLE(SubSeq(rec, 1, 8)), channel |-> rec[9], type |-> rec[10],
     bin |-> UIntLE(SubSeq(rec, 11, 12)), align |-> SignedLE(SubSeq(rec, 13, 16))]

convert_hptdc_hits_data(data) ==
    [i \in DOMAIN data |->
        [time |-> data[i].time, channel |-> data[i].channel,
         type |-> data[i].type, bin |-> data[i].bin]]

(***************************************************************************)
(* process_hptdc: header resolver and table store                          *)
(***************************************************************************)
\* lines 272-286: the legacy header, re-read directly after the magic
LegacyHeader(f) ==
    LET b == Read(f, 5, 17)
    IN  [outcome |-> "ok", old_style |-> TRUE,
         scan_table_offset |-> SignedLE(SubSeq(b, 1, 4)),
         scan_count |-> SignedLE(SubSeq(b, 5, 8)),
         param_table_offset |-> SignedLE(SubSeq(b, 9, 12)),
         param_table_size |-> SignedLE(SubSeq(b, 13, 16)),
         mode |-> IF b[17] = 71 THEN GRPS ELSE HITS]

\* lines 255-259: the modern header
ModernHeader(f) ==
    LET b == Read(f, 17, 24)
    IN  [outcome |-> "ok", old_style |-> FALSE,
         scan_table_offset |-> SignedLE(SubSeq(b, 1, 8)),
         scan_count |-> SignedLE(SubSeq(b, 9, 12)),
         param_table_offset |-> SignedLE(SubSeq(b, 13, 20)),
         param_table_size |-> SignedLE(SubSeq(b, 21, 24)),
         mode |-> Read(f, 13, 4)]

Raise(exc) == [outcome |-> "raise", exc |-> exc]

\* lines 244-289: magic, modern header, fallback to the legacy header.
\* struct.unpack raises struct.error on a short read; fp.read(n) raises
\* ValueError for n < -1 and reads to the end of the file for n = -1
ResolveHeader(f) ==
    IF Read(f, 0, 5) # Magic THEN [outcome |-> "badmagic"]
    ELSE IF Len(Read(f, 5, 8)) < 8 \/ Len(Read(f, 17, 24)) < 24
    THEN Raise("struct.error")
    ELSE LET header_size == SignedLE(Read(f, 5, 4))
         IN  IF header_size > 4096 THEN LegacyHeader(f)
             ELSE IF header_size - 32 < 0 - 1 THEN Raise("ValueError")
             ELSE LET pos == IF header_size - 32 = 0 - 1 THEN Len(f)
                             ELSE Min(41 + (header_size - 32), Len(f))
                  IN  IF Read(f, pos, 4) # DataTag THEN LegacyHeader(f)
                      ELSE ModernHeader(f)

\* line 338
InvalidSize(data_size, itemsize) == data_size < 0 \/ data_size % itemsize # 0

\* lines 335-347: "ok", "invalid" or the exception raised
RECURSIVE CheckRows(_, _, _, _)
CheckRows(step_table, idx, step_count, itemsize) ==
    IF idx >= step_count THEN "ok"
    ELSE IF idx >= Len(step_table) THEN "IndexError"
    ELSE IF InvalidSize(step_table[idx + 1].data_size, itemsize) THEN "invalid"
    ELSE CheckRows(step_table, idx + 1, step_count, itemsize)

CheckTable(step_table, step_count, itemsize) ==
    CheckRows(step_table, 0, step_count, itemsize)

\* lines 328-353: the loop over the declared scans
RECURSIVE ReadTables(_, _, _, _, _, _, _)
ReadTables(f, pos, k, scan_count, old_style, itemsize, tables) ==
    IF k >= scan_count THEN [status |-> "ok", step_tables |-> tables]
    ELSE
      LET h == Read(f, pos, 8)
          step_count == SignedLE(SubSeq(h, 1, 4))
          step_table_size == SignedLE(SubSeq(h, 5, 8))
          buf == IF step_table_size = 0 - 1 THEN Slice(f, pos + 8, Len(f))
                 ELSE Read(f, pos + 8, step_table_size)
          step_table == [i \in 1..(Len(buf) \div EntrySize(old_style)) |->
                            EntryOf(FromBuffer(buf, EntrySize(old_style))[i], old_style)]
          check == CheckTable(step_table, step_count, itemsize)
      IN  IF Len(h) < 8 THEN [status |-> "struct.error"]
          ELSE IF step_table_size < 0 - 1 THEN [status |-> "ValueError"]
          ELSE IF Len(buf) % EntrySize(old_style) # 0 THEN [status |-> "ValueError"]
          ELSE IF check = "ok"
          THEN ReadTables(f, pos + 8 + Len(buf), k + 1, scan_count, old_style,
                          itemsize, Append(tables, step_table))
          ELSE [status |-> check]

(***************************************************************************)
(* Channel files as the inputs of process_hptdc.  A file is described by   *)
(* a record d: gen (modern or legacy layout), mode, scans (for each scan   *)
(* the record counts of its steps), hv, tv, pv (variants of the header,    *)
(* of the tables and of the parameter block).                              *)
(***************************************************************************)
RECURSIVE SumSeq(_)
SumSeq(q) == IF Len(q) = 0 THEN 0 ELSE Head(q) + SumSeq(Tail(q))

RECURSIVE Flatten(_)
Flatten(q) == IF Len(q) = 0 THEN << >> ELSE Head(q) \o Flatten(Tail(q))

\* the top bytes of the words of a step: FL, RS and GR words
WordTops == <<129, 16, 17>>

\* record number k of a file, in the input layout of its mode
RecordBytes(mode, k) ==
    IF mode = GRPS THEN <<k, 0, 0, WordTops[(k % 3) + 1]>>
    ELSE IntBytes(k, 8) \o <<1, 2>> \o IntBytes(k, 2) \o IntBytes(0, 4)

StepLen(mode, n) == Len(StepMarkerOf(mode)) + n * ItemSize(mode)

ScanLen(mode, steps) ==
    Len(ScanMarkerOf(mode)) + SumSeq([k \in DOMAIN steps |-> StepLen(mode, steps[k])])

\* the offset of step k of scan s (1-based) in a data section that starts at base
StepOffset(mode, scans, s, k, base) ==
    base + SumSeq([j \in 1..(s - 1) |-> ScanLen(mode, scans[j])])
         + Len(ScanMarkerOf(mode))
         + SumSeq([j \in 1..(k - 1) |-> StepLen(mode, scans[s][j])])

StepData(mode, s, k, n) ==
    StepMarkerOf(mode) \o Flatten([i \in 1..n |-> RecordBytes(mode, 16 * s + 4 * k + i)])

DataSection(mode, scans) ==
    Flatten([s \in DOMAIN scans |->
        ScanMarkerOf(mode) \o
        Flatten([k \in DOMAIN scans[s] |-> StepData(mode, s, k, scans[s][k])])])

\* the label of step k: one capital letter, NUL-padded to 32 bytes
LabelBytes(k) == <<64 + k>> \o [i \in 1..31 |-> 0]

RowBytes(label, data_offset, data_size, old_style) ==
    label \o IntBytes(data_offset, FieldSize(old_style))
          \o IntBytes(data_size, FieldSize(old_style))

\* the data_size written for step k of scan s under the table variant tv
RowSize(mode, scans, s, k, tv) ==
    LET size == StepLen(mode, scans[s][k])
    IN  IF s = 1 /\ k = Len(scans[1]) /\ tv = "oddsize" THEN size + 1
        ELSE IF s = 1 /\ k = Len(scans[1]) /\ tv = "negsize" THEN 0 - 4
        ELSE IF s = 1 /\ k = 1 /\ tv = "nodata" THEN 0
        ELSE size

\* the table of scan s: step_count, step_table_size and the rows.  Variants:
\* "extrarow" has one more row than step_count declares, with an odd
\* data_size; "fewrows" declares one more step than it has rows; "cutrow"
\* has a step_table_size that is not a number of whole rows
ScanTable(mode, scans, s, base, old_style, tv) ==
    LET rows == Flatten([k \in DOMAIN scans[s] |->
                    RowBytes(LabelBytes(k), StepOffset(mode, scans, s, k, base),
                             RowSize(mode, scans, s, k, tv), old_style)])
        extra == IF s = 1 /\ tv = "extrarow"
                 THEN RowBytes(LabelBytes(26), StepOffset(mode, scans, 1, 1, base),
                               StepLen(mode, scans[1][1]) + 1, old_style)
                 ELSE IF s = 1 /\ tv = "cutrow" THEN <<0>>
                 ELSE << >>
        step_count == IF s = 1 /\ tv = "fewrows" THEN Len(scans[s]) + 1
                      ELSE Len(scans[s])
    IN  IntBytes(step_count, 4) \o IntBytes(Len(rows) + Len(extra), 4)
            \o rows \o extra

\* the parameter block under the variant pv: "a 1\nb 2\n", one line with
\* two spaces, a byte that is not ASCII, or nothing
ParamBlock(pv) ==
    IF pv = "ok" THEN <<97, 32, 49, 10, 98, 32, 50, 10>>
    ELSE IF pv = "badline" THEN <<97, 32, 49, 32, 50, 10>>
    ELSE IF pv = "nonascii" THEN <<97, 32, 200, 10>>
    ELSE << >>

\* the fields behind the magic.  hv = "extra" has four reserved bytes
\* behind the modern header, "badmode" an unknown mode tag
HeaderFields(d, sto, scan_count, pto, pts) ==
    IF d.gen = "legacy"
    THEN IntBytes(sto, 4) \o IntBytes(scan_count, 4) \o IntBytes(pto, 4)
             \o IntBytes(pts, 4) \o <<d.mode[1]>>
    ELSE IntBytes(IF d.hv = "extra" THEN 36 ELSE 32, 4) \o IntBytes(1, 4)
             \o (IF d.hv = "badmode" THEN <<88, 88, 88, 88>> ELSE d.mode)
             \o IntBytes(sto, 8) \o IntBytes(scan_count, 4)
             \o IntBytes(pto, 8) \o IntBytes(pts, 4)
             \o (IF d.hv = "extra" THEN <<0, 0, 0, 0>> ELSE << >>)
             \o DataTag

HeaderLen(d) ==
    5 + (IF d.gen = "legacy" THEN 17 ELSE IF d.hv = "extra" THEN 44 ELSE 40)

\* the channel file of d.  tv = "unclosed": the writer never came to write
\* the tables, the offsets in the header are still zero.  hv = "far": the
\* tables lie behind byte FarOffset.  hv = "badmagic", "tiny": another
\* magic, a file cut behind 30 bytes
FarOffset == 4100

BuildFile(d) ==
    LET old_style == d.gen = "legacy"
        base == HeaderLen(d)
        data == DataSection(d.mode, d.scans)
        pad == IF d.hv = "far" THEN [i \in 1..(FarOffset - base - Len(data)) |-> 1]
               ELSE << >>
        sto == base + Len(data) + Len(pad)
        tables == Flatten([s \in DOMAIN d.scans |->
                      ScanTable(d.mode, d.scans, s, base, old_style, d.tv)])
        params == ParamBlock(d.pv)
        pto == IF d.pv = "badoffset" THEN 0 - 1 ELSE sto + Len(tables)
        body == IF d.tv = "unclosed"
                THEN HeaderFields(d, 0, 0, 0, 0) \o data
                ELSE HeaderFields(d, sto, Len(d.scans), pto, Len(params))
                         \o data \o pad \o tables \o params
        whole == (IF d.hv = "badmagic" THEN <<72, 80, 84, 68, 88>> ELSE Magic) \o body
    IN  IF d.hv = "tiny" THEN SubSeq(whole, 1, 30) ELSE whole

(***************************************************************************)
(* process_hptdc: the sink (attributes, groups, datasets), the step        *)
(* streamer and the parameter block                                        *)
(***************************************************************************)
\* the texts "Type", "Mode", "hptdc" as their ASCII codes
TypeKey == <<84, 121, 112, 101>>
ModeKey == <<77, 111, 100, 101>>
HptdcText == <<104, 112, 116, 100, 99>>

\* channel_grp.attrs[key] = value
RECURSIVE SetAttr(_, _, _)
SetAttr(a, key, value) ==
    IF Len(a) = 0 THEN <<[key |-> key, value |-> value]>>
    ELSE IF Head(a).key = key THEN <<[key |-> key, value |-> value]>> \o Tail(a)
    ELSE <<Head(a)>> \o SetAttr(Tail(a), key, value)

\* bytes.split / str.split with a one-character separator
RECURSIVE SplitBy(_, _)
SplitBy(bs, sep) ==
    LET i == Find(bs, <<sep>>)
    IN  IF i < 0 THEN <<bs>>
        ELSE <<Slice(bs, 0, i)>> \o SplitBy(Slice(bs, i + 1, Len(bs)), sep)

IsAscii(bs) == \A i \in DOMAIN bs : bs[i] < 128

\* lines 468-470: the loop over the lines; a line that does not split into
\* two parts makes the unpacking raise ValueError
RECURSIVE WriteParams(_, _)
WriteParams(a, lines) ==
    IF Len(lines) = 0 THEN [attrs |-> a, raised |-> FALSE]
    ELSE LET parts == SplitBy(Head(lines), 32)
         IN  IF Len(parts) # 2 THEN [attrs |-> a, raised |-> TRUE]
             ELSE WriteParams(SetAttr(a, parts[1], parts[2]), Tail(lines))

\* convert_data_func on the records of one buffer
ConvertData(mode, wf, buf) ==
    IF mode = HITS
    THEN convert_hptdc_hits_data([i \in 1..(Len(buf) \div 16) |-> HitOf(FromBuffer(buf, 16)[i])])
    ELSE IF wf = "raw" THEN convert_hptdc_group_data_raw(FromBuffer(buf, 4))
    ELSE convert_hptdc_group_data_decoded(FromBuffer(buf, 4))

\* one element of a new dataset of out_dtype
ZeroItem(mode, wf) ==
    IF mode = HITS THEN [time |-> 0, channel |-> 0, type |-> 0, bin |-> 0, align |-> 0]
    ELSE IF wf = "raw" THEN <<0, 0, 0, 0>>
    ELSE ZeroWord

\* lines 406-409: len(out_dtype.names), 1 for a dtype without fields
ColumnCount(mode, wf) == IF mode = HITS THEN 5 ELSE IF wf = "raw" THEN 1 ELSE 4

\* line 435: the length of the read at offset
ChunkBytes(offset, data_len, chunk_len) == Min(chunk_len, data_len - offset)

\* the fields of new written over old; a field that new lacks keeps its value
Merge(old, new) == [f \in DOMAIN old |-> IF f \in DOMAIN new THEN new[f] ELSE old[f]]

\* a plausible slip: every chunk is written at the front of the dataset
WriteSlice_front(data, start_idx, chunk) ==
    [i \in DOMAIN data |->
        IF i <= Len(chunk) THEN Merge(data[i], chunk[i]) ELSE data[i]]

\* line 440: h5step[start_idx : start_idx + data.shape[0]] = data
WriteSlice(data, start_idx, chunk) ==
    [i \in DOMAIN data |->
        IF i > start_idx /\ i <= start_idx + Len(chunk)
        THEN Merge(data[i], chunk[i - start_idx]) ELSE data[i]]

DatasetNames(grp) == {grp.datasets[i].name : i \in DOMAIN grp.datasets}

\* h5scan.create_dataset on the group created last
AddDataset(gs, ds) ==
    [gs EXCEPT ![Len(gs)].datasets = Append(@, ds)]

(***************************************************************************)
(* process_hptdc, one action for each stage of the function                *)
(***************************************************************************)
\* the function returns value, or leaves by the exception named value
Finish(value, wrn) ==
    /\ pr_pc' = "done"
    /\ result' = value
    /\ warnings' = warnings \o wrn

ProcLocals == <<hdr, step_tables, tables_src, scan_idx, step_idx, fp, h5step>>
ProcArgs == <<file, chunk_size, word_format, ignore_tables>>

\* lines 240-321: the Type attribute, the magic, the header, the mode
ProcHeader ==
    /\ pr_pc = "start"
    /\ LET h == ResolveHeader(file)
           a == SetAttr(attrs, TypeKey, HptdcText)
       IN  /\ attrs' = IF h.outcome = "ok" /\ h.mode \in {GRPS, HITS}
                       THEN SetAttr(a, ModeKey, h.mode) ELSE a
           /\ IF h.outcome = "badmagic"
              THEN Finish("False", <<"WARNING: Invalid magic code, skipping!">>)
                   /\ UNCHANGED hdr
              ELSE IF h.outcome = "raise"
              THEN Finish(h.exc, << >>) /\ UNCHANGED hdr
              ELSE IF h.mode \notin {GRPS, HITS}
              THEN Finish("False", <<"FATAL: Unknown TDC mode encountered, skipping!">>)
                   /\ UNCHANGED hdr
              ELSE /\ hdr' = h
                   /\ pr_pc' = "tables"
                   /\ UNCHANGED <<result, warnings>>
    /\ UNCHANGED <<step_tables, tables_src, scan_idx, step_idx, fp, h5step, groups>>
    /\ UNCHANGED <<ProcArgs, notProc>>

\* lines 323-362: the declared tables are read and checked (the warning
\* of an invalid row is kept without the two numbers it formats)
ProcTables ==
    /\ pr_pc = "tables"
    /\ IF hdr.scan_table_offset > 0 /\ ~ignore_tables
       THEN LET r == ReadTables(file, hdr.scan_table_offset, 0, hdr.scan_count,
                                hdr.old_style, ItemSize(hdr.mode), << >>)
            IN  IF r.status = "ok"
                THEN /\ step_tables' = r.step_tables
                     /\ tables_src' = "file"
                     /\ pr_pc' = "scan"
                     /\ UNCHANGED <<result, warnings>>
                ELSE IF r.status = "invalid"
                THEN /\ tables_src' = "none"
                     /\ pr_pc' = "rebuild"
                     /\ warnings' = Append(warnings,
                            "WARNING: Invalid data_size entry, ignoring tables...")
                     /\ UNCHANGED <<result, step_tables>>
                ELSE Finish(r.status, << >>) /\ UNCHANGED <<step_tables, tables_src>>
       ELSE /\ tables_src' = "none"
            /\ pr_pc' = "rebuild"
            /\ warnings' = IF hdr.scan_table_offset = 0 /\ ~ignore_tables
                           THEN Append(warnings,
                                "WARNING: Tables are probably corrupted, trying to rebuild...")
                           ELSE warnings
            /\ UNCHANGED <<result, step_tables>>
    /\ UNCHANGED <<hdr, scan_idx, step_idx, fp, h5step, attrs, groups>>
    /\ UNCHANGED <<ProcArgs, notProc>>

\* lines 364-380: the tables are rebuilt from the markers; the unpacking of
\* a False returned by rebuild_hptdc_tables raises TypeError
ProcRebuild ==
    /\ pr_pc = "rebuild"
    /\ LET d_end == IF hdr.scan_table_offset = 0 THEN Len(file)
                    ELSE hdr.scan_table_offset
           mk == Max(Len(ScanMarkerOf(hdr.mode)), Len(StepMarkerOf(hdr.mode)))
           r == rebuild_hptdc_tables(file, ScanMarkerOf(hdr.mode),
                                     StepMarkerOf(hdr.mode), d_end, mk * chunk_size)
       IN  IF r.ok
           THEN /\ hdr' = [hdr EXCEPT !.scan_table_offset = d_end,
                                      !.scan_count = r.scan_count]
                /\ step_tables' = r.step_tables
                /\ tables_src' = "rebuilt"
                /\ pr_pc' = "scan"
                /\ warnings' = warnings \o r.warnings
                /\ UNCHANGED result
           ELSE Finish("TypeError", r.warnings)
                /\ UNCHANGED <<hdr, step_tables, tables_src>>
    /\ UNCHANGED <<scan_idx, step_idx, fp, h5step, attrs, groups>>
    /\ UNCHANGED <<ProcArgs, notProc>>

\* lines 382-383 and 443: the next scan gets its group; after the last
\* scan the parameter block is next
ProcScan ==
    /\ pr_pc = "scan"
    /\ IF scan_idx < hdr.scan_count
       THEN /\ groups' = Append(groups, [name |-> EncodeAscii(Str(scan_idx)),
                                         datasets |-> << >>])
            /\ step_idx' = 0
            /\ pr_pc' = "step"
       ELSE /\ pr_pc' = "params"
            /\ UNCHANGED <<groups, step_idx>>
    /\ UNCHANGED <<hdr, step_tables, tables_src, scan_idx, fp, h5step, attrs,
                   result, warnings>>
    /\ UNCHANGED <<ProcArgs, notProc>>

\* a plausible slip: data_len <= 0 in the test of line 400, so a step
\* without data is refused as a corrupted entry
ProcStep_abort ==
    /\ pr_pc = "step"
    /\ IF step_idx >= Len(step_tables[scan_idx + 1])
       THEN /\ scan_idx' = scan_idx + 1
            /\ pr_pc' = "scan"
            /\ UNCHANGED <<step_idx, fp, h5step, groups, result, warnings>>
       ELSE
         LET step_entry == step_tables[scan_idx + 1][step_idx + 1]
             mlen == Len(StepMarkerOf(hdr.mode))
             data_len == step_entry.data_size - mlen
             taken == step_entry.value \in DatasetNames(groups[Len(groups)])
             corrupted == <<"WARNING: Corrupted step table, skipping!">>
         IN  IF ~IsAscii(step_entry.value)
             THEN Finish("False", corrupted)
                  /\ UNCHANGED <<scan_idx, step_idx, fp, h5step, groups>>
             ELSE IF step_entry.data_offset < 0
             THEN Finish("OSError", << >>)
                  /\ UNCHANGED <<scan_idx, step_idx, fp, h5step, groups>>
             ELSE IF data_len <= 0
             THEN Finish("False", corrupted)
                  /\ UNCHANGED <<scan_idx, step_idx, fp, h5step, groups>>
             ELSE IF taken
             THEN Finish("ValueError", << >>)
                  /\ UNCHANGED <<scan_idx, step_idx, fp, h5step, groups>>
             ELSE IF data_len = 0
             THEN /\ groups' = AddDataset(groups,
                        [name |-> step_entry.value,
                         shape |-> <<0, ColumnCount(hdr.mode, word_format)>>,
                         data |-> << >>])
                  /\ step_idx' = step_idx + 1
                  /\ UNCHANGED <<scan_idx, pr_pc, fp, h5step, result, warnings>>
             ELSE /\ groups' = AddDataset(groups,
                        [name |-> step_entry.value,
                         shape |-> <<data_len \div ItemSize(hdr.mode)>>,
                         data |-> [i \in 1..(data_len \div ItemSize(hdr.mode)) |->
                                      ZeroItem(hdr.mode, word_format)]])
                  /\ fp' = Min(step_entry.data_offset + mlen,
                               Max(step_entry.data_offset, Len(file)))
                  /\ h5step' = [data_len |-> data_len, offset |-> 0, start_idx |-> 0]
                  /\ pr_pc' = "chunk"
                  /\ UNCHANGED <<scan_idx, step_idx, result, warnings>>
    /\ UNCHANGED <<hdr, step_tables, tables_src, attrs>>
    /\ UNCHANGED <<ProcArgs, notProc>>

\* a plausible slip: the dataset of the step is created ahead of the test
\* of line 400
ProcStep_late ==
    /\ pr_pc = "step"
    /\ IF step_idx >= Len(step_tables[scan_idx + 1])
       THEN /\ scan_idx' = scan_idx + 1
            /\ pr_pc' = "scan"
            /\ UNCHANGED <<step_idx, fp, h5step, groups, result, warnings>>
       ELSE
         LET step_entry == step_tables[scan_idx + 1][step_idx + 1]
             mlen == Len(StepMarkerOf(hdr.mode))
             data_len == step_entry.data_size - mlen
             taken == step_entry.value \in DatasetNames(groups[Len(groups)])
             corrupted == <<"WARNING: Corrupted step table, skipping!">>
         IN  IF ~IsAscii(step_entry.value)
             THEN Finish("False", corrupted)
                  /\ UNCHANGED <<scan_idx, step_idx, fp, h5step, groups>>
             ELSE IF step_entry.data_offset < 0
             THEN Finish("OSError", << >>)
                  /\ UNCHANGED <<scan_idx, step_idx, fp, h5step, groups>>
             ELSE IF data_len < 0
             THEN Finish("False", corrupted)
                  /\ groups' = AddDataset(groups,
                        [name |-> step_entry.value, shape |-> <<0>>, data |-> << >>])
                  /\ UNCHANGED <<scan_idx, step_idx, fp, h5step>>
             ELSE IF taken
             THEN Finish("ValueError", << >>)
                  /\ UNCHANGED <<scan_idx, step_idx, fp, h5step, groups>>
             ELSE IF data_len = 0
             THEN /\ groups' = AddDataset(groups,
                        [name |-> step_entry.value,
                         shape |-> <<0, ColumnCount(hdr.mode, word_format)>>,
                         data |-> << >>])
                  /\ step_idx' = step_idx + 1
                  /\ UNCHANGED <<scan_idx, pr_pc, fp, h5step, result, warnings>>
             ELSE /\ groups' = AddDataset(groups,
                        [name |-> step_entry.value,
                         shape |-> <<data_len \div ItemSize(hdr.mode)>>,
                         data |-> [i \in 1..(data_len \div ItemSize(hdr.mode)) |->
                                      ZeroItem(hdr.mode, word_format)]])
                  /\ fp' = Min(step_entry.data_offset + mlen,
                               Max(step_entry.data_offset, Len(file)))
                  /\ h5step' = [data_len |-> data_len, offset |-> 0, start_idx |-> 0]
                  /\ pr_pc' = "chunk"
                  /\ UNCHANGED <<scan_idx, step_idx, result, warnings>>
    /\ UNCHANGED <<hdr, step_tables, tables_src, attrs>>
    /\ UNCHANGED <<ProcArgs, notProc>>

\* lines 385-430: the next step entry is opened and its dataset created.  A
\* seek to a negative offset raises OSError, a dataset name that the group
\* already has ValueError
ProcStep ==
    /\ pr_pc = "step"
    /\ IF step_idx >= Len(step_tables[scan_idx + 1])
       THEN /\ scan_idx' = scan_idx + 1
            /\ pr_pc' = "scan"
            /\ UNCHANGED <<step_idx, fp, h5step, groups, result, warnings>>
       ELSE
         LET step_entry == step_tables[scan_idx + 1][step_idx + 1]
             mlen == Len(StepMarkerOf(hdr.mode))
             data_len == step_entry.data_size - mlen
             taken == step_entry.value \in DatasetNames(groups[Len(groups)])
             corrupted == <<"WARNING: Corrupted step table, skipping!">>
         IN  IF ~IsAscii(step_entry.value)
             THEN Finish("False", corrupted)
                  /\ UNCHANGED <<scan_idx, step_idx, fp, h5step, groups>>
             ELSE IF step_entry.data_offset < 0
             THEN Finish("OSError", << >>)
                  /\ UNCHANGED <<scan_idx, step_idx, fp, h5step, groups>>
             ELSE IF data_len < 0
             THEN Finish("False", corrupted)
                  /\ UNCHANGED <<scan_idx, step_idx, fp, h5step, groups>>
             ELSE IF taken
             THEN Finish("ValueError", << >>)
                  /\ UNCHANGED <<scan_idx, step_idx, fp, h5step, groups>>
             ELSE IF data_len = 0
             THEN /\ groups' = AddDataset(groups,
                        [name |-> step_entry.value,
                         shape |-> <<0, ColumnCount(hdr.mode, word_format)>>,
                         data |-> << >>])
                  /\ step_idx' = step_idx + 1
                  /\ UNCHANGED <<scan_idx, pr_pc, fp, h5step, result, warnings>>
             ELSE /\ groups' = AddDataset(groups,
                        [name |-> step_entry.value,
                         shape |-> <<data_len \div ItemSize(hdr.mode)>>,
                         data |-> [i \in 1..(data_len \div ItemSize(hdr.mode)) |->
                                      ZeroItem(hdr.mode, word_format)]])
                  /\ fp' = Min(step_entry.data_offset + mlen,
                               Max(step_entry.data_offset, Len(file)))
                  /\ h5step' = [data_len |-> data_len, offset |-> 0, start_idx |-> 0]
                  /\ pr_pc' = "chunk"
                  /\ UNCHANGED <<scan_idx, step_idx, result, warnings>>
    /\ UNCHANGED <<hdr, step_tables, tables_src, attrs>>
    /\ UNCHANGED <<ProcArgs, notProc>>

\* lines 432-441: one pass of the loop over the chunks.  numpy.frombuffer
\* raises ValueError for a buffer that is not whole records, the
\* assignment TypeError for more records than the slice has room for
ProcChunk ==
    /\ pr_pc = "chunk"
    /\ LET itemsize == ItemSize(hdr.mode)
           chunk_len == itemsize * chunk_size
           buf == Read(file, fp, ChunkBytes(h5step.offset, h5step.data_len, chunk_len))
           data == ConvertData(hdr.mode, word_format, buf)
           h5 == groups[Len(groups)].datasets[Len(groups[Len(groups)].datasets)]
       IN  IF Len(buf) % itemsize # 0
           THEN Finish("ValueError", << >>)
                /\ UNCHANGED <<groups, fp, h5step, step_idx>>
           ELSE IF h5step.start_idx + Len(data) > Len(h5.data)
           THEN Finish("TypeError", << >>)
                /\ UNCHANGED <<groups, fp, h5step, step_idx>>
           ELSE /\ groups' = [groups EXCEPT
                        ![Len(groups)].datasets[Len(groups[Len(groups)].datasets)].data =
                            WriteSlice(@, h5step.start_idx, data)]
                /\ fp' = fp + Len(buf)
                /\ h5step' = [h5step EXCEPT !.offset = @ + chunk_len,
                                            !.start_idx = @ + Len(data)]
                /\ IF h5step.offset + chunk_len >= h5step.data_len
                   THEN step_idx' = step_idx + 1 /\ pr_pc' = "step"
                   ELSE UNCHANGED <<step_idx, pr_pc>>
                /\ UNCHANGED <<result, warnings>>
    /\ UNCHANGED <<hdr, step_tables, tables_src, scan_idx, attrs>>
    /\ UNCHANGED <<ProcArgs, notProc>>

\* lines 443-475: the parameter block
ProcParams ==
    /\ pr_pc = "params"
    /\ LET n == hdr.param_table_size - 1
           text == IF n = 0 - 1 THEN Slice(file, hdr.param_table_offset, Len(file))
                   ELSE Read(file, hdr.param_table_offset, n)
           param_lines == SplitBy(text, 10)
           w == WriteParams(attrs, param_lines)
       IN  IF hdr.param_table_offset < 0
           THEN Finish("True", <<"WARNING: Invalid offset for parameters table in header, probably not present in dataset...">>)
                /\ UNCHANGED attrs
           ELSE IF n < 0 - 1 \/ ~IsAscii(text)
           THEN Finish("True", <<"WARNING: Corrupted parameters table, not present in dataset...">>)
                /\ UNCHANGED attrs
           ELSE IF Len(param_lines[1]) = 0
           THEN Finish("True", <<"WARNING: Empty parameters table...">>)
                /\ UNCHANGED attrs
           ELSE /\ attrs' = w.attrs
                /\ Finish(IF w.raised THEN "ValueError" ELSE "True", << >>)
    /\ UNCHANGED <<ProcLocals, groups>>
    /\ UNCHANGED <<ProcArgs, notProc>>

(***************************************************************************)
(* Specification of process_hptdc on one channel file                      *)
(***************************************************************************)
\* chunk_size ranges over 1..MaxChunk, a step has at most MaxRecs records
MaxChunk == 3
MaxRecs == 3

\* one scan with one full step; two scans, the first with an empty step
Shapes == { << <<MaxRecs>> >>, << <<MaxRecs - 1, 0>>, <<1>> >> }

Description(gen, mode, scans, hv, tv, pv) ==
    [gen |-> gen, mode |-> mode, scans |-> scans, hv |-> hv, tv |-> tv, pv |-> pv]

Call(d, cs, wf, it) ==
    [d |-> d, chunk_size |-> cs, word_format |-> wf, ignore_tables |-> it]

Gens == {"modern", "legacy"}

\* well-formed files of both layouts and modes, for every chunk size
StreamCalls ==
    {Call(Description(gen, mode, scans, "ok", "ok", "ok"), cs, wf, it) :
        gen \in Gens, mode \in {GRPS, HITS}, scans \in Shapes,
        cs \in 1..MaxChunk, wf \in {"raw", "decoded"}, it \in BOOLEAN}

\* files whose tables are damaged or were never written
TableCalls ==
    {Call(Description(gen, GRPS, << <<MaxRecs - 1, 0>>, <<1>> >>, "ok", tv, "ok"),
          cs, "raw", FALSE) :
        gen \in Gens, cs \in {1, MaxChunk},
        tv \in {"oddsize", "negsize", "nodata", "extrarow", "fewrows", "cutrow",
                "unclosed"}}

\* files with a damaged or unusual header
HeaderCalls ==
    {Call(Description(gen, GRPS, << <<1>> >>, hv, "ok", "ok"), 1, "raw", FALSE) :
        gen \in Gens, hv \in {"badmagic", "badmode", "extra", "far", "tiny"}}

\* files with a damaged parameter block
ParamCalls ==
    {Call(Description(gen, GRPS, << <<1>> >>, "ok", "ok", pv), 1, "raw", FALSE) :
        gen \in Gens, pv \in {"badline", "nonascii", "none", "badoffset"}}

\* files without any scan: closed ones and ones that were never closed
NoScanCalls ==
    {Call(Description("modern", GRPS, << >>, "ok", tv, "ok"), 1, "raw", it) :
        tv \in {"ok", "unclosed"}, it \in BOOLEAN}

ProcCalls ==
    StreamCalls \cup TableCalls \cup HeaderCalls \cup ParamCalls \cup NoScanCalls

ProcInit ==
    /\ \E c \in ProcCalls :
          /\ file = BuildFile(c.d)
          /\ chunk_size = c.chunk_size
          /\ word_format = c.word_format
          /\ ignore_tables = c.ignore_tables
    /\ warnings = << >>
    /\ pr_pc = "start" /\ hdr = << >> /\ step_tables = << >> /\ tables_src = ""
    /\ scan_idx = 0 /\ step_idx = 0 /\ fp = 0 /\ h5step = << >>
    /\ attrs = << >> /\ groups = << >> /\ result = ""
    /\ CodecIdle /\ ClassIdle /\ RebuildIdle /\ MainIdle

ProcNext ==
    \/ ProcHeader
    \/ ProcTables
    \/ ProcRebuild
    \/ ProcScan
    \/ ProcStep
    \/ ProcChunk
    \/ ProcParams

SpecProcess == ProcInit /\ [][ProcNext]_vars

(***************************************************************************)
(* process_run of metro2hdf/main.py: the loop over the channels of a run.  *)
(* A channel is its file_path suffix and the bytes of its file; its name   *)
(* is its position in the dict.                                            *)
(***************************************************************************)
MaxChannels == 2

Channel(suffix, d) == [suffix |-> suffix, file |-> BuildFile(d)]

SmallFile(hv, scans, tv) == Description("modern", GRPS, scans, hv, tv, "ok")

\* a well-formed file, one with another magic, one with an unknown mode
\* tag, an unclosed one without a scan marker, and a file that is no .tdc
ChannelFiles ==
    {Channel("tdc", SmallFile("ok", << <<1>> >>, "ok")),
     Channel("tdc", SmallFile("badmagic", << <<1>> >>, "ok")),
     Channel("tdc", SmallFile("badmode", << <<1>> >>, "ok")),
     Channel("tdc", SmallFile("ok", << >>, "unclosed")),
     Channel("dat", SmallFile("ok", << <<1>> >>, "ok"))}

MainInit ==
    /\ channels \in [1..MaxChannels -> ChannelFiles]
    /\ verbose \in BOOLEAN
    /\ mr_pc = "loop" /\ progress = 0 /\ skipped = << >> /\ h5f = << >>
    /\ chunk_size = 1 /\ word_format = "raw" /\ ignore_tables = FALSE
    /\ pr_pc = "off" /\ hdr = << >> /\ step_tables = << >> /\ tables_src = ""
    /\ scan_idx = 0 /\ step_idx = 0 /\ fp = 0 /\ h5step = << >>
    /\ attrs = << >> /\ groups = << >> /\ result = ""
    /\ FileIdle /\ CodecIdle /\ ClassIdle /\ RebuildIdle

\* what process_hptdc has written into the group of the channel
GroupOf(channel) == [channel |-> channel, attrs |-> attrs, groups |-> groups]

\* lines 43-69: the next channel gets its group; a .tdc file is handed to
\* process_hptdc, any other file is skipped (.txt files are not modelled)
MainChannel ==
    /\ mr_pc = "loop" /\ progress < Len(channels)
    /\ h5f' = Append(h5f, [channel |-> progress, attrs |-> << >>, groups |-> << >>])
    /\ IF channels[progress + 1].suffix = "tdc"
       THEN /\ file' = channels[progress + 1].file
            /\ pr_pc' = "start"
            /\ mr_pc' = "call"
            /\ UNCHANGED <<progress, skipped>>
       ELSE /\ skipped' = IF verbose
                          THEN Append(skipped, <<progress, channels[progress + 1].suffix>>)
                          ELSE skipped
            /\ progress' = progress + 1
            /\ UNCHANGED <<file, pr_pc, mr_pc>>
    /\ hdr' = << >> /\ step_tables' = << >> /\ tables_src' = ""
    /\ scan_idx' = 0 /\ step_idx' = 0 /\ fp' = 0 /\ h5step' = << >>
    /\ attrs' = << >> /\ groups' = << >> /\ result' = ""
    /\ UNCHANGED <<channels, verbose, chunk_size, word_format, ignore_tables,
                   warnings, notMain>>

\* a plausible slip: the value handed back by process_hptdc is tested and a
\* False ends the loop
MainReturn_stop ==
    /\ mr_pc = "call" /\ pr_pc = "done"
    /\ h5f' = [h5f EXCEPT ![Len(h5f)] = GroupOf(progress)]
    /\ pr_pc' = "off"
    /\ IF result = "True"
       THEN progress' = progress + 1 /\ mr_pc' = "loop"
       ELSE mr_pc' = "raised" /\ UNCHANGED progress
    /\ UNCHANGED <<channels, verbose, skipped, file, warnings, chunk_size,
                   word_format, ignore_tables, hdr, step_tables, tables_src,
                   scan_idx, step_idx, fp, h5step, attrs, groups, result, notMain>>

\* lines 58-71: process_hptdc has left.  Its return value is not looked
\* at; an exception leaves process_run as well
MainReturn ==
    /\ mr_pc = "call" /\ pr_pc = "done"
    /\ h5f' = [h5f EXCEPT ![Len(h5f)] = GroupOf(progress)]
    /\ pr_pc' = "off"
    /\ IF result \in {"True", "False"}
       THEN progress' = progress + 1 /\ mr_pc' = "loop"
       ELSE mr_pc' = "raised" /\ UNCHANGED progress
    /\ UNCHANGED <<channels, verbose, skipped, file, warnings, chunk_size,
                   word_format, ignore_tables, hdr, step_tables, tables_src,
                   scan_idx, step_idx, fp, h5step, attrs, groups, result, notMain>>

\* lines 77-84: the loop is over
MainDone ==
    /\ mr_pc = "loop" /\ progress >= Len(channels)
    /\ mr_pc' = "done"
    /\ UNCHANGED <<channels, verbose, progress, skipped, h5f, fileVars, procVars,
                   notMain>>

MainNext ==
    \/ MainChannel
    \/ MainReturn
    \/ MainDone
    \/ ProcHeader
    \/ ProcTables
    \/ ProcRebuild
    \/ ProcScan
    \/ ProcStep
    \/ ProcChunk
    \/ ProcParams

SpecMain == MainInit /\ [][MainNext]_vars

(***************************************************************************)
(* Properties of process_run                                               *)
(***************************************************************************)
\* the channel files with another magic or with an unknown mode tag
HeaderFaults ==
    {Channel("tdc", SmallFile(hv, << <<1>> >>, "ok")) : hv \in {"badmagic", "badmode"}}

\* process_hptdc has left on the channel that the loop is at
Returned == mr_pc = "call" /\ pr_pc = "done"

\* C11: on a channel file with a wrong magic or an unknown mode tag
\* process_hptdc leaves with the value False, not with an exception, and
\* process_run then moves on to the channel behind it; process_run is never
\* left by an exception at such a channel.
C11_HeaderFaultSkipsFile ==
    [][(Returned /\ channels[progress + 1] \in HeaderFaults)
          => /\ result = "False"
             /\ mr_pc' = "loop"
             /\ progress' = progress + 1]_vars

\* a run whose first channel has such a fault and whose last channel was
\* streamed afterwards
C11_Witness ==
    /\ mr_pc = "done"
    /\ channels[1] \in HeaderFaults
    /\ Len(h5f) = MaxChannels
    /\ h5f[MaxChannels].groups # << >>

\* the rebuild was run and found no scan marker in its window
NoAlignment ==
    /\ Len(warnings) > 0
    /\ warnings[Len(warnings)] = "WARNING: Could not find first scan marker, skipping!"

\* C12: when the rebuild finds no scan marker process_hptdc leaves with the
\* value False, not with an exception, and process_run is not left at that
\* channel: every channel of the run gets processed.
C12_NoAlignmentSkipsFile ==
    /\ (Returned /\ NoAlignment) => result = "False"
    /\ (mr_pc = "raised" /\ NoAlignment) => progress >= Len(channels)

(***************************************************************************)
(* Properties of process_hptdc                                             *)
(***************************************************************************)
MarkerLen == Len(StepMarkerOf(hdr.mode))

\* a step entry the streamer can serve: a whole number of records behind
\* the marker, all of them in the file
ValidEntry(e) ==
    /\ e.data_size >= MarkerLen
    /\ e.data_size % ItemSize(hdr.mode) = 0
    /\ e.data_offset >= 0
    /\ e.data_offset + e.data_size <= Len(file)

\* the records of the entry, converted in a single pass
SinglePass(e) ==
    ConvertData(hdr.mode, word_format,
                Read(file, e.data_offset + MarkerLen, e.data_size - MarkerLen))

\* step k of scan s (1-based) has left the chunk loop
StepDone(s, k) == s - 1 < scan_idx \/ (s - 1 = scan_idx /\ k - 1 < step_idx)

Agrees(item, conv) == \A f \in DOMAIN conv : item[f] = conv[f]

TablesInUse == tables_src \in {"file", "rebuilt"}

AllEntriesValid ==
    \A s \in DOMAIN step_tables :
        /\ \A k \in DOMAIN step_tables[s] :
              ValidEntry(step_tables[s][k]) /\ IsAscii(step_tables[s][k].value)
        /\ \A k, j \in DOMAIN step_tables[s] :
              k # j => step_tables[s][k].value # step_tables[s][j].value

\* C1: for every chunk size, the dataset of a step entry with a valid
\* data_size whose bytes are in the file holds, once the step is streamed,
\* exactly (data_size - marker length) / record width records, record i
\* being the conversion of raw record i, as a single-pass decode gives
\* them; and when every entry is such an entry, every step is streamed
C1_ChunkInvariance ==
    /\ \A s \in DOMAIN groups :
          \A k \in DOMAIN groups[s].datasets :
             (TablesInUse /\ StepDone(s, k) /\ ValidEntry(step_tables[s][k]))
             => LET data == groups[s].datasets[k].data
                    conv == SinglePass(step_tables[s][k])
                IN  /\ Len(data) = (step_tables[s][k].data_size - MarkerLen)
                                       \div ItemSize(hdr.mode)
                    /\ Len(data) = Len(conv)
                    /\ \A i \in DOMAIN data : Agrees(data[i], conv[i])
    /\ (pr_pc \in {"params", "done"} /\ TablesInUse /\ AllEntriesValid)
       => /\ Len(groups) = Len(step_tables)
          /\ \A s \in DOMAIN groups :
                Len(groups[s].datasets) = Len(step_tables[s])

\* a file with tables, streamed record by record and in chunks of two into
\* a dataset of MaxRecs decoded words that are not all alike
C1_Witness ==
    /\ pr_pc = "done" /\ result = "True" /\ tables_src = "file"
    /\ chunk_size \in {1, 2} /\ word_format = "decoded"
    /\ \E s \in DOMAIN groups :
          \E k \in DOMAIN groups[s].datasets :
             /\ ValidEntry(step_tables[s][k])
             /\ Len(groups[s].datasets[k].data) = MaxRecs
             /\ groups[s].datasets[k].data = SinglePass(step_tables[s][k])
             /\ groups[s].datasets[k].data[1] # groups[s].datasets[k].data[2]

\* C9: when the declared tables are read and a row has a data_size that
\* is negative or not a multiple of the record width, the loaded tables
\* are discarded: the tables used for streaming are never tables from the
\* file that contain such a row
C9_TableValidity ==
    tables_src = "file"
    => \A s \in DOMAIN step_tables :
          \A k \in DOMAIN step_tables[s] :
             ~InvalidSize(step_tables[s][k].data_size, ItemSize(hdr.mode))

\* the condition of the fallback as the format states it: header_size
\* above 4096, or no DATA tag behind the header_size bytes that follow
\* the header_size field
Fallback(f) ==
    LET header_size == SignedLE(Read(f, 5, 4))
    IN  header_size > 4096 \/ Read(f, 9 + header_size, 4) # DataTag

HeaderParsed == DOMAIN hdr # {}

\* C10: a file with the magic (and the length of a modern header) is
\* parsed with the legacy layout exactly when header_size exceeds 4096 or
\* the 4 bytes behind the declared header are not DATA, and then its
\* header fields are those of the legacy read
C10_HeaderFallback ==
    (pr_pc \notin {"off", "start"} /\ Read(file, 0, 5) = Magic /\ Len(file) >= 41)
    => IF Fallback(file)
       THEN /\ HeaderParsed
            /\ hdr.old_style
            /\ hdr.mode = LegacyHeader(file).mode
            /\ hdr.param_table_offset = LegacyHeader(file).param_table_offset
            /\ hdr.param_table_size = LegacyHeader(file).param_table_size
       ELSE HeaderParsed => ~hdr.old_style

\* process_hptdc has left from its parameter stage: every scan was streamed
AfterStreaming ==
    pr_pc = "done" /\ HeaderParsed /\ TablesInUse /\ scan_idx >= hdr.scan_count

\* the bytes that line 457 reads as the parameter block
ParamText == Read(file, hdr.param_table_offset, hdr.param_table_size - 1)

\* a block that is not ASCII, or with a line that is not one key and one
\* value around a single space
CorruptParamBlock ==
    /\ hdr.param_table_offset >= 0 /\ hdr.param_table_size >= 1
    /\ Len(ParamText) > 0
    /\ \/ ~IsAscii(ParamText)
       \/ \E i \in DOMAIN SplitBy(ParamText, 10) :
             Len(SplitBy(SplitBy(ParamText, 10)[i], 32)) # 2

ParamAttrs == {i \in DOMAIN attrs : attrs[i].key \notin {TypeKey, ModeKey}}

\* C13: with a parameter block that cannot be parsed process_hptdc returns
\* True, every scan has its group and no parameter attribute is set.
C13_ParamBlockRecoverable ==
    (AfterStreaming /\ CorruptParamBlock)
    => /\ result = "True"
       /\ Len(groups) = hdr.scan_count
       /\ ParamAttrs = {}

\* process_hptdc has returned False before a header was accepted: the magic
\* or the mode tag was refused
HeaderFailure == pr_pc = "done" /\ result = "False" /\ ~HeaderParsed

\* C14: when process_hptdc fails on the magic or on the mode tag, the
\* channel group has no attribute and no group or dataset was created.
C14_NoPartialOutput ==
    HeaderFailure => (attrs = << >> /\ groups = << >>)

\* C15: a run that streamed from rebuilt tables does not hand back the
\* value True, which is what a run on the tables of the file hands back.
C15_RecoveredSurfaced ==
    (AfterStreaming /\ tables_src = "rebuilt") => result # "True"

\* a dataset of a zero-length step exists
EmptyStepWritten ==
    \E g \in DOMAIN groups : \E k \in DOMAIN groups[g].datasets :
        Len(groups[g].datasets[k].shape) = 2

\* the tables in use hold a row with the fault that line 338 tests for
InvalidRowInUse ==
    /\ tables_src = "file"
    /\ \E sc \in DOMAIN step_tables : \E k \in DOMAIN step_tables[sc] :
          InvalidSize(step_tables[sc][k].data_size, ItemSize(hdr.mode))

\* C16: once a bad magic, an unknown mode, an invalid table row, a corrupted
\* parameter block or a zero-length step has been met, at least one warning
\* was emitted.
C16_EveryAnomalyWarns ==
    /\ HeaderFailure => Len(warnings) >= 1
    /\ InvalidRowInUse => Len(warnings) >= 1
    /\ (AfterStreaming /\ CorruptParamBlock) => Len(warnings) >= 1
    /\ EmptyStepWritten => Len(warnings) >= 1

\* the read of the first declared table runs past the bytes that are
\* there: no 8 bytes for step_count and step_table_size, or a block with
\* fewer rows than step_count
FirstTableShort ==
    LET h == Read(file, hdr.scan_table_offset, 8)
        block == Read(file, hdr.scan_table_offset + 8, SignedLE(SubSeq(h, 5, 8)))
    IN  /\ hdr.scan_table_offset > 0 /\ hdr.scan_count > 0 /\ ~ignore_tables
        /\ \/ Len(h) < 8
           \/ /\ SignedLE(SubSeq(h, 5, 8)) >= 0
              /\ SignedLE(SubSeq(h, 1, 4)) > Len(block) \div EntrySize(hdr.old_style)

\* C24: when the read of the declared tables runs past the available bytes
\* the tables are dropped and the rebuild is run; process_hptdc does not
\* raise.
C24_BoundaryInvalidates ==
    (HeaderParsed /\ pr_pc # "tables" /\ FirstTableShort)
    => /\ tables_src \in {"none", "rebuilt"}
       /\ result \notin {"IndexError", "struct.error", "ValueError"}

\* the streamer is at a step entry without data that it can open
AtEmptyStep ==
    /\ pr_pc = "step" /\ step_idx < Len(step_tables[scan_idx + 1])
    /\ LET e == step_tables[scan_idx + 1][step_idx + 1]
       IN  /\ e.data_size = MarkerLen
           /\ IsAscii(e.value) /\ e.data_offset >= 0
           /\ e.value \notin DatasetNames(groups[Len(groups)])

\* the steps without data that the streamer has passed have a dataset of
\* zero rows under their label in the group of their scan
EmptyStepsWritten ==
    TablesInUse =>
        \A sc \in DOMAIN step_tables : \A k \in DOMAIN step_tables[sc] :
            (StepDone(sc, k) /\ step_tables[sc][k].data_size = MarkerLen) =>
                /\ sc <= Len(groups)
                /\ \E n \in DOMAIN groups[sc].datasets :
                      /\ groups[sc].datasets[n].name = step_tables[sc][k].value
                      /\ Len(groups[sc].datasets[n].data) = 0
                      /\ groups[sc].datasets[n].shape[1] = 0

\* C25: a step entry whose data_size is the marker length gets an empty
\* dataset under its label in the group of its scan, and the streamer goes
\* on to the next step without leaving the file.
C25_ZeroLengthStep ==
    /\ []EmptyStepsWritten
    /\ [][AtEmptyStep => /\ pr_pc' = "step"
                         /\ step_idx' = step_idx + 1 /\ scan_idx' = scan_idx
                         /\ Len(groups'[Len(groups)].datasets)
                                = Len(groups[Len(groups)].datasets) + 1
                         /\ result' = result]_vars

\* a file with an empty step in its first scan was processed to its end:
\* the second scan has its data
C25_Witness ==
    /\ pr_pc = "done" /\ result = "True" /\ Len(groups) = 2
    /\ Len(groups[1].datasets) = 2
    /\ Len(groups[1].datasets[2].data) = 0
    /\ groups[1].datasets[2].shape[1] = 0
    /\ Len(groups[2].datasets[1].data) = 1

\* rebuild_hptdc_tables was called: its first warning is there
RebuildRan ==
    \E n \in DOMAIN warnings : warnings[n] = "scanning for markers..."

\* the header as the file declares it, and the verdict of lines 335-347 on
\* the tables it declares
Declared == ResolveHeader(file)
DeclaredInvalid ==
    /\ Declared.scan_table_offset > 0 /\ ~ignore_tables
    /\ ReadTables(file, Declared.scan_table_offset, 0, Declared.scan_count,
                  Declared.old_style, ItemSize(Declared.mode), << >>).status
           = "invalid"

\* C26: once the table stage is over, the rebuild has run exactly when the
\* declared scan_table_offset is zero, the loaded tables are invalid or
\* ignore_tables is set, with data_end the file size for a zero offset and
\* the declared offset otherwise; in every other case the tables of the
\* file are in use and the file was not scanned for markers.
C26_RebuildTrigger ==
    (HeaderParsed /\ pr_pc \notin {"tables", "rebuild"}) =>
        IF Declared.scan_table_offset = 0 \/ ignore_tables \/ DeclaredInvalid
        THEN /\ RebuildRan
             /\ tables_src = "rebuilt" =>
                    hdr.scan_table_offset =
                        IF Declared.scan_table_offset = 0 THEN Len(file)
                        ELSE Declared.scan_table_offset
        ELSE ~RebuildRan /\ tables_src = "file"

CorruptedStepWarning == "WARNING: Corrupted step table, skipping!"

\* the entry that the streamer is at has a data_size below the marker
\* length (and a label and an offset that let the streamer reach line 398)
AtCorruptStep ==
    /\ TablesInUse /\ scan_idx < Len(step_tables)
    /\ step_idx < Len(step_tables[scan_idx + 1])
    /\ LET e == step_tables[scan_idx + 1][step_idx + 1]
       IN  e.data_size < MarkerLen /\ IsAscii(e.value) /\ e.data_offset >= 0

\* C27: at a step entry with a data_size below the marker length
\* process_hptdc emits a warning and returns False; the groups hold the
\* datasets of the steps before that entry and nothing else.
C27_CorruptStepAborts ==
    /\ [][(pr_pc = "step" /\ AtCorruptStep)
             => /\ pr_pc' = "done" /\ result' = "False"
                /\ warnings' = Append(warnings, CorruptedStepWarning)
                /\ groups' = groups]_vars
    /\ []((pr_pc = "done" /\ HeaderParsed /\ AtCorruptStep)
             => /\ Len(groups) = scan_idx + 1
                /\ Len(groups[scan_idx + 1].datasets) = step_idx)

\* the file whose first entry declares no data at all
C27_Witness ==
    /\ pr_pc = "done" /\ result = "False" /\ tables_src = "file"
    /\ scan_idx = 0 /\ step_idx = 0
    /\ step_tables[1][1].data_size < MarkerLen
    /\ warnings = <<CorruptedStepWarning>>
    /\ Len(groups) = 1 /\ groups[1].datasets = << >>

\* C29: the entry that the streamer is about to process, or is reading the
\* chunks of, has a data_size that is a non-negative multiple of the width
\* of an input record, for tables of the file and for rebuilt tables.
C29_StreamedEntriesValid ==
    (pr_pc \in {"step", "chunk"} /\ step_idx < Len(step_tables[scan_idx + 1])) =>
        ~InvalidSize(step_tables[scan_idx + 1][step_idx + 1].data_size,
                     ItemSize(hdr.mode))

(***************************************************************************)
(* Specification of the codec: one call of the decoder on a one-element    *)
(* array (the decoder is element-wise)                                     *)
(***************************************************************************)
\* the leading byte sweeps every prefix; the low 24 bits take these patterns
LowPatterns == {0, 1, 2 ^ 23, 2 ^ 24 - 1}

FieldMax(arg_def) == 2 ^ (arg_def[1] - arg_def[2] + 1) - 1

FieldExtremes(type_str, arg_name) ==
    LET arg_def == HptdcWordDefinitions[type_str][arg_name]
    IN  IF arg_def = NoArg THEN {0} ELSE {0, FieldMax(arg_def)}

\* the "<u4" word with leading byte hi8 and low 24 bits low24
U32(hi8, low24) ==
    <<low24 % 256, (low24 \div 256) % 256, low24 \div 65536, hi8>>

\* the raw word built from a type prefix and its arguments
Encode(type_str, a1, a2, a3) ==
    LET type_def == HptdcWordDefinitions[type_str]
        field(arg_name, a) ==
            IF type_def[arg_name] = NoArg THEN 0 ELSE Shl(a, type_def[arg_name][2])
        fields == field("arg1", a1) + field("arg2", a2) + field("arg3", a3)
    IN  U32(Shl(type_def.type_val, 8 - type_def.type_len) + fields \div (2 ^ 24),
            fields % (2 ^ 24))

TypeNames == {WordTypes[k] : k \in 1..Len(WordTypes)}

EncodedExtremes ==
    {Encode(t[1], t[2], t[3], t[4]) :
        t \in UNION {{t} \X FieldExtremes(t, "arg1") \X FieldExtremes(t, "arg2")
                         \X FieldExtremes(t, "arg3") : t \in TypeNames}}

CodecInputs ==
    {U32(top, low) : top \in 0..255, low \in LowPatterns} \cup EncodedExtremes

CodecInit ==
    /\ cv_pc = "input"
    /\ inp \in {<<w>> : w \in CodecInputs}
    /\ outp = << >>
    /\ ClassIdle /\ FileIdle /\ RebuildIdle /\ ProcIdle /\ MainIdle

Convert ==
    /\ cv_pc = "input"
    /\ outp' = convert_hptdc_group_data_decoded(inp)
    /\ cv_pc' = "decoded"
    /\ UNCHANGED <<inp, notCodec>>

CodecNext == Convert

SpecCodec == CodecInit /\ [][CodecNext]_vars

(***************************************************************************)
(* Claims about the codec                                                  *)
(***************************************************************************)
\* C7: for every type and every argument at 0 or all-ones of its inclusive
\* bit range, decoding the word built from (type, arg1, arg2, arg3) returns
\* the same type and the same three arguments.
C7_RoundTrip ==
    cv_pc = "decoded" =>
        \A t \in TypeNames :
            \A a1 \in FieldExtremes(t, "arg1"), a2 \in FieldExtremes(t, "arg2"),
               a3 \in FieldExtremes(t, "arg3") :
                inp = <<Encode(t, a1, a2, a3)>> =>
                    outp = <<[type |-> t, arg1 |-> a1, arg2 |-> a2, arg3 |-> a3]>>

\* the leading type_len bits of the word, read off its leading byte
MatchesPrefix(w) ==
    \E t \in TypeNames :
        w[4] \div 2 ^ (8 - HptdcWordDefinitions[t].type_len)
            = HptdcWordDefinitions[t].type_val

\* two's-complement value of the four bytes
Signed32(w) ==
    LET low31 == w[1] + 256 * w[2] + 65536 * w[3] + 16777216 * (w[4] % 128)
    IN  IF w[4] >= 128 THEN (low31 - 1073741824) - 1073741824 ELSE low31

\* C8: a word matching none of the six prefixes decodes to type "??" with
\* arg1 = 0, arg2 = 0 and arg3 the word as a signed 32-bit value; a word
\* matching a prefix never decodes to "??".
C8_UnknownFallback ==
    cv_pc = "decoded" =>
        /\ ~MatchesPrefix(inp[1]) =>
               outp[1] = [type |-> "??", arg1 |-> 0, arg2 |-> 0,
                          arg3 |-> Signed32(inp[1])]
        /\ MatchesPrefix(inp[1]) => outp[1].type # "??"

C8_Witness ==
    cv_pc = "decoded" /\ ~MatchesPrefix(inp[1]) /\ outp[1].type = "??"
        /\ outp[1].arg3 = Signed32(inp[1]) /\ outp[1].arg3 > 0

\* bit b of the "<u4" word w, bit 0 being the lowest
RawBit(w, b) == (w[(b \div 8) + 1] \div 2 ^ (b % 8)) % 2

\* the value of the bits high..low of w, both included
RECURSIVE BitField(_, _, _)
BitField(w, high, low) ==
    IF high < low THEN 0 ELSE RawBit(w, low) + 2 * BitField(w, high, low + 1)

\* the leading type_len bits of w are the prefix of type t
HasPrefix(w, t) ==
    w[4] \div 2 ^ (8 - HptdcWordDefinitions[t].type_len)
        = HptdcWordDefinitions[t].type_val

\* C20: for a word of type t each argument declared as (high_bit, low_bit)
\* decodes to the value of the raw bits high_bit..low_bit inclusive, and an
\* argument that t does not declare decodes to 0.
C20_InclusiveRanges ==
    cv_pc = "decoded" =>
        \A t \in TypeNames : HasPrefix(inp[1], t) =>
            \A arg_name \in {"arg1", "arg2", "arg3"} :
                LET arg_def == HptdcWordDefinitions[t][arg_name]
                IN  outp[1][arg_name] =
                        IF arg_def = NoArg THEN 0
                        ELSE BitField(inp[1], arg_def[1], arg_def[2])

\* the orders in which the six types can be tried
Orders ==
    {order \in [1..Len(WordTypes) -> TypeNames] :
        \A i, j \in 1..Len(WordTypes) : i # j => order[i] # order[j]}

\* the loop over the types, tried in the given order
RECURSIVE PlaceTypesIn(_, _, _, _)
PlaceTypesIn(o, w, order, k) ==
    IF k > Len(order) THEN o
    ELSE PlaceTypesIn(PlaceType(o, w, order[k]), w, order, k + 1)

\* the dict order rotated, and the dict order reversed
Rotations ==
    {[i \in 1..Len(WordTypes) |-> WordTypes[((i + r - 1) % Len(WordTypes)) + 1]] :
        r \in 0..(Len(WordTypes) - 1)}
    \cup {[i \in 1..Len(WordTypes) |-> WordTypes[Len(WordTypes) + 1 - i]]}

\* every bit below the leading byte is set, so no field of any type is 0
AllFieldBits(w) == w[1] = 255 /\ w[2] = 255 /\ w[3] = 255

MatchingTypes(w) == {t \in TypeNames : type_mask(w, HptdcWordDefinitions[t])}

\* C21: at most one of the six prefixes matches a raw word, and the decoded
\* word is the same for every order in which the types are tried (all 720
\* orders for the words with every field bit set, the rotations and the
\* reversal of the dict order for the others).
C21_ExclusivePrefixes ==
    cv_pc = "decoded" =>
        /\ Cardinality(MatchingTypes(inp[1])) <= 1
        /\ \A order \in (IF AllFieldBits(inp[1]) THEN Orders ELSE Rotations) :
              PlaceUnknown(PlaceTypesIn(ZeroWord, inp[1], order, 1), inp[1]) = outp[1]

\* an RL word: its leading byte 0001 0000 shares four bits with LV (0001 1)
\* and three with GR (0000)
C21_Witness ==
    /\ cv_pc = "decoded" /\ inp[1][4] = 16
    /\ MatchingTypes(inp[1]) = {"RL"} /\ outp[1].type = "RL"

(***************************************************************************)
(* Event classifier: analyze_words_python                                  *)
(***************************************************************************)
\* "{0}E{1}P|{2}|{3}".format(...)
OtherText(e, p, E, P) ==
    Str(e) \o <<"E">> \o Str(p) \o <<"P", "|">> \o Join(<<",">>, StrAll(E))
        \o <<"|">> \o Join(<<",">>, StrAll(P))

BufTypes == {"E", "EE", "EEE", "EEEE", "P", "PP", "EP", "EEP"}
EventTypes == BufTypes \cup {"other"}

EmptyEvents == [t \in EventTypes |-> << >>]

Append_(ev, t, rec) == [ev EXCEPT ![t] = Append(@, rec)]

\* a plausible slip: the EEE row tested with e_counter >= 3
ClassifyRun_swapped(ev, E, P, e, p) ==
    IF e = 1 /\ p = 0 THEN Append_(ev, "E", E[1])
    ELSE IF e = 0 /\ p = 1 THEN Append_(ev, "P", P[1])
    ELSE IF e = 1 /\ p = 1 THEN Append_(ev, "EP", <<E[1], P[1]>>)
    ELSE IF e = 2 /\ p = 0 THEN Append_(ev, "EE", E)
    ELSE IF e = 0 /\ p = 2 THEN Append_(ev, "PP", P)
    ELSE IF e = 2 /\ p = 1 THEN Append_(ev, "EEP", <<E[1], E[2], P[1]>>)
    ELSE IF e >= 3 /\ p = 0 THEN Append_(ev, "EEE", E)
    ELSE IF e = 4 /\ p = 0 THEN Append_(ev, "EEEE", E)
    ELSE IF e > 0 \/ p > 0 THEN Append_(ev, "other", OtherText(e, p, E, P))
    ELSE ev

\* a plausible slip: the P row begins a chain of its own (if for elif), so a
\* run of one E is appended to E and falls through to other as well
ClassifyRun_split(ev, E, P, e, p) ==
    LET ev1 == IF e = 1 /\ p = 0 THEN Append_(ev, "E", E[1]) ELSE ev
    IN  IF e = 0 /\ p = 1 THEN Append_(ev1, "P", P[1])
        ELSE IF e = 1 /\ p = 1 THEN Append_(ev1, "EP", <<E[1], P[1]>>)
        ELSE IF e = 2 /\ p = 0 THEN Append_(ev1, "EE", E)
        ELSE IF e = 0 /\ p = 2 THEN Append_(ev1, "PP", P)
        ELSE IF e = 2 /\ p = 1 THEN Append_(ev1, "EEP", <<E[1], E[2], P[1]>>)
        ELSE IF e = 3 /\ p = 0 THEN Append_(ev1, "EEE", E)
        ELSE IF e = 4 /\ p = 0 THEN Append_(ev1, "EEEE", E)
        ELSE IF e > 0 \/ p > 0 THEN Append_(ev1, "other", OtherText(e, p, E, P))
        ELSE ev1

\* the chain of if/elif at an RL word: the events after the append
ClassifyRun(ev, E, P, e, p) ==
    IF e = 1 /\ p = 0 THEN Append_(ev, "E", E[1])
    ELSE IF e = 0 /\ p = 1 THEN Append_(ev, "P", P[1])
    ELSE IF e = 1 /\ p = 1 THEN Append_(ev, "EP", <<E[1], P[1]>>)
    ELSE IF e = 2 /\ p = 0 THEN Append_(ev, "EE", E)
    ELSE IF e = 0 /\ p = 2 THEN Append_(ev, "PP", P)
    ELSE IF e = 2 /\ p = 1 THEN Append_(ev, "EEP", <<E[1], E[2], P[1]>>)
    ELSE IF e = 3 /\ p = 0 THEN Append_(ev, "EEE", E)
    ELSE IF e = 4 /\ p = 0 THEN Append_(ev, "EEEE", E)
    ELSE IF e > 0 \/ p > 0 THEN Append_(ev, "other", OtherText(e, p, E, P))
    ELSE ev

\* the locals of a call, as set before the loop
CallLocals(ev) ==
    [events |-> ev, cur_event_E |-> << >>, cur_event_P |-> << >>,
     n_events |-> 0, e_counter |-> 0, p_counter |-> 0]

\* a plausible slip: else in place of elif word[1] == 2, so every FL word
\* that is no E counts as P
AnalyzeWord_else(st, word) ==
    IF word.type = "RL"
    THEN [events |-> ClassifyRun(st.events, st.cur_event_E, st.cur_event_P,
                                 st.e_counter, st.p_counter),
          cur_event_E |-> << >>, cur_event_P |-> << >>,
          n_events |-> st.n_events + 1, e_counter |-> 0, p_counter |-> 0]
    ELSE IF word.type = "FL"
    THEN IF word.arg1 = 1
         THEN [st EXCEPT !.cur_event_E = Append(@, word.arg3),
                         !.e_counter = @ + 1]
         ELSE [st EXCEPT !.cur_event_P = Append(@, word.arg3),
                         !.p_counter = @ + 1]
    ELSE st

\* one iteration of the loop over words
AnalyzeWord(st, word) ==
    IF word.type = "RL"
    THEN [events |-> ClassifyRun(st.events, st.cur_event_E, st.cur_event_P,
                                 st.e_counter, st.p_counter),
          cur_event_E |-> << >>, cur_event_P |-> << >>,
          n_events |-> st.n_events + 1, e_counter |-> 0, p_counter |-> 0]
    ELSE IF word.type = "GR" THEN st
    ELSE IF word.type = "FL"
    THEN IF word.arg1 = 1
         THEN [st EXCEPT !.cur_event_E = Append(@, word.arg3),
                         !.e_counter = @ + 1]
         ELSE IF word.arg1 = 2
         THEN [st EXCEPT !.cur_event_P = Append(@, word.arg3),
                         !.p_counter = @ + 1]
         ELSE st
    ELSE st

RECURSIVE AnalyzeFrom(_, _, _)
AnalyzeFrom(st, ws, k) ==
    IF k > Len(ws) THEN st ELSE AnalyzeFrom(AnalyzeWord(st, ws[k]), ws, k + 1)

\* analyze_words_python(events, words): the events after the call and the
\* returned n_events
analyze_words_python(ev, ws) ==
    LET st == AnalyzeFrom(CallLocals(ev), ws, 1)
    IN  [events |-> st.events, n_events |-> st.n_events]

(***************************************************************************)
(* One call of analyze_words_python, word by word                          *)
(***************************************************************************)
MaxWords == 5

\* decoded words of a step: RL, GR, FL with arg1 = 1 (E), 2 (P) and 3 (X);
\* the arg3 of a word is 7 plus its position, so every value is distinct
WordOf(shape, i) ==
    IF shape = "RL" THEN [type |-> "RL", arg1 |-> 0, arg2 |-> 0, arg3 |-> 0]
    ELSE IF shape = "GR" THEN [type |-> "GR", arg1 |-> 0, arg2 |-> 0, arg3 |-> 0]
    ELSE [type |-> "FL",
          arg1 |-> (IF shape = "E" THEN 1 ELSE IF shape = "P" THEN 2 ELSE 3),
          arg2 |-> 0, arg3 |-> 7 + i]

StepWords(shapes) ==
    UNION {{[i \in 1..n |-> WordOf(sh[i], i)] : sh \in [1..n -> shapes]} : n \in 0..MaxWords}

\* lines 12-17: the call has been entered with an empty events dict
AnalyzeInit ==
    /\ words \in StepWords({"RL", "GR", "E", "P", "X"})
    /\ events = EmptyEvents
    /\ az_pc = "loop" /\ word_idx = 0
    /\ cur_event_E = << >> /\ cur_event_P = << >>
    /\ az_n_events = 0 /\ e_counter = 0 /\ p_counter = 0
    /\ RunIdle /\ CodecIdle /\ FileIdle /\ RebuildIdle /\ ProcIdle /\ MainIdle

Locals ==
    [events |-> events, cur_event_E |-> cur_event_E, cur_event_P |-> cur_event_P,
     n_events |-> az_n_events, e_counter |-> e_counter, p_counter |-> p_counter]

AnalyzeStep ==
    /\ az_pc = "loop" /\ word_idx < Len(words)
    /\ LET st == AnalyzeWord(Locals, words[word_idx + 1])
       IN  /\ events' = st.events
           /\ cur_event_E' = st.cur_event_E
           /\ cur_event_P' = st.cur_event_P
           /\ az_n_events' = st.n_events
           /\ e_counter' = st.e_counter
           /\ p_counter' = st.p_counter
    /\ word_idx' = word_idx + 1
    /\ UNCHANGED <<az_pc, words, runVars, notClass>>

AnalyzeReturn ==
    /\ az_pc = "loop" /\ word_idx >= Len(words)
    /\ az_pc' = "returned"
    /\ UNCHANGED <<word_idx, cur_event_E, cur_event_P, az_n_events, e_counter,
                   p_counter, words, events, runVars, notClass>>

AnalyzeNext == AnalyzeStep \/ AnalyzeReturn

SpecAnalyze == AnalyzeInit /\ [][AnalyzeNext]_vars


(***************************************************************************)
(* The batching loop of run() over one step of a groups channel            *)
(***************************************************************************)
\* stands for the 10000000 words of a batch (line 217), scaled to the steps
\* of the model: batch ranges over 1..MaxBatch
MaxBatch == 3

\* the names of the buckets as texts
Chars ==
    [E |-> <<"E">>, EE |-> <<"E", "E">>, EEE |-> <<"E", "E", "E">>,
     EEEE |-> <<"E", "E", "E", "E">>, P |-> <<"P">>, PP |-> <<"P", "P">>,
     EP |-> <<"E", "P">>, EEP |-> <<"E", "E", "P">>]

\* text.replace(old, new) for a one-character old
Replace(text, old, new) ==
    [i \in DOMAIN text |-> IF text[i] = old THEN new ELSE text[i]]

\* numpy.concatenate of the arrays of a buf_list ([] when there is none)
RECURSIVE Concatenate(_)
Concatenate(buf_list) ==
    IF Len(buf_list) = 0 THEN << >>
    ELSE buf_list[1] \o Concatenate(Tail(buf_list))

\* lines 217-223: the end of the slice that starts at ws
RECURSIVE LookAhead(_, _)
LookAhead(in_step, we) ==
    IF we + 1 >= Len(in_step) THEN Len(in_step)        \* IndexError
    ELSE IF in_step[we + 2].type = "GR" THEN we        \* in_step[word_end + 1]
    ELSE LookAhead(in_step, we + 1)

\* a plausible slip: the batch length alone in place of word_start + length
WordEnd_short(in_step, ws, size) == LookAhead(in_step, Min(size, Len(in_step)))

WordEnd(in_step, ws, size) == LookAhead(in_step, Min(ws + size, Len(in_step)))

RunInit ==
    /\ words \in StepWords({"RL", "GR", "E", "P"})
    /\ par2 \in {"P", "I"}
    /\ batch \in 1..MaxBatch
    /\ rn_pc = "step"
    /\ events = << >> /\ bufs = << >> /\ slices = << >> /\ out_step = << >>
    /\ word_start = 0 /\ n_events = 0
    /\ AnalyzeIdle /\ CodecIdle /\ FileIdle /\ RebuildIdle /\ ProcIdle /\ MainIdle

\* lines 177-185: an empty step is reported and skipped
RunEmptyStep ==
    /\ rn_pc = "step" /\ Len(words) = 0
    /\ rn_pc' = "skipped"
    /\ UNCHANGED <<par2, batch, word_start, n_events, bufs, slices, out_step,
                   words, events, analyzeVars, notClass>>

\* lines 188-214
RunStepBegin ==
    /\ rn_pc = "step" /\ Len(words) # 0
    /\ events' = EmptyEvents
    /\ bufs' = [t \in BufTypes |-> << >>]
    /\ word_start' = 0
    /\ n_events' = 0
    /\ rn_pc' = "while"
    /\ UNCHANGED <<par2, batch, slices, out_step, words, analyzeVars, notClass>>

\* lines 216-236: one iteration of the while loop (word_end and the result
\* r of the call are bound as the elements of one-element sets, so that
\* TLC computes each of them once)
RunBatch ==
    /\ rn_pc = "while" /\ word_start < Len(words)
    /\ \E word_end \in {WordEnd(words, word_start, batch)} :
       \E r \in {analyze_words_python(events, Slice(words, word_start, word_end))} :
           /\ n_events' = n_events + r.n_events
           /\ bufs' = [t \in BufTypes |->
                          IF Len(r.events[t]) > 0 THEN Append(bufs[t], r.events[t])
                          ELSE bufs[t]]
           /\ events' = [t \in EventTypes |->
                            IF t \in BufTypes THEN << >> ELSE r.events[t]]
           /\ slices' = Append(slices, <<word_start, word_end>>)
           /\ word_start' = word_end
    /\ UNCHANGED <<rn_pc, par2, batch, out_step, words, analyzeVars, notClass>>

\* lines 238-258: the datasets and the attribute of the step
RunStepEnd ==
    /\ rn_pc = "while" /\ word_start >= Len(words)
    /\ out_step' =
          [n_events |-> n_events,
           other |-> Replace(Join(<<"\n">>, events["other"]), "P", par2),
           datasets |->
               [ev_type \in {Replace(Chars[t], "P", par2) : t \in BufTypes} |->
                   LET buf_type == CHOOSE t \in BufTypes :
                                       Replace(Chars[t], "P", par2) = ev_type
                   IN  Concatenate(bufs[buf_type])]]
    /\ rn_pc' = "done"
    /\ UNCHANGED <<par2, batch, word_start, n_events, bufs, slices,
                   words, events, analyzeVars, notClass>>

RunNext == RunEmptyStep \/ RunStepBegin \/ RunBatch \/ RunStepEnd

SpecRun == RunInit /\ [][RunNext]_vars

\* C2: feeding a step's words to analyze_words_python batch by batch, as the
\* loop of run() does, gives in every bucket the same events in the same
\* order as one call on the whole sequence.
C2_BatchEquivalence ==
    rn_pc = "done" =>
        LET whole == analyze_words_python(EmptyEvents, words).events
        IN  /\ \A t \in BufTypes : Concatenate(bufs[t]) = whole[t]
            /\ events["other"] = whole["other"]

\* the loop on the steps of up to MaxFair words over RL, GR and E, under
\* the scheduling of a sequential program: a step that can be taken is
\* taken
MaxFair == 4

RunFairInit ==
    /\ words \in {w \in StepWords({"RL", "GR", "E"}) : Len(w) <= MaxFair}
    /\ par2 = "P"
    /\ batch \in 1..MaxBatch
    /\ rn_pc = "step"
    /\ events = << >> /\ bufs = << >> /\ slices = << >> /\ out_step = << >>
    /\ word_start = 0 /\ n_events = 0
    /\ AnalyzeIdle /\ CodecIdle /\ FileIdle /\ RebuildIdle /\ ProcIdle /\ MainIdle

SpecRunFair == RunFairInit /\ [][RunNext]_vars /\ WF_vars(RunNext)

\* the slices so far follow one another from word 0 to word_start, each
\* with at least one word
Partition ==
    /\ \A n \in DOMAIN slices :
          /\ slices[n][1] = (IF n = 1 THEN 0 ELSE slices[n - 1][2])
          /\ slices[n][1] < slices[n][2]
          /\ slices[n][2] <= Len(words)
    /\ rn_pc = "while" =>
          word_start = (IF Len(slices) = 0 THEN 0 ELSE slices[Len(slices)][2])

RLCount == Cardinality({i \in DOMAIN words : words[i].type = "RL"})

\* C28: the while loop ends, word_start grows in every iteration, the
\* slices are contiguous and cover the step from word 0 to its last word,
\* and the n_events of the step is its number of RL words.
C28_BatchingPartition ==
    /\ []Partition
    /\ [][rn_pc = "while" /\ word_start < Len(words)
             => word_start' > word_start /\ word_start' = slices'[Len(slices')][2]]_vars
    /\ [](rn_pc = "done" =>
             /\ slices[Len(slices)][2] = Len(words)
             /\ out_step.n_events = RLCount)
    /\ <>(rn_pc \in {"done", "skipped"})

\* a step of four words that took three slices and holds two RL words
C28_Witness ==
    /\ rn_pc = "done" /\ Len(words) = 4 /\ Len(slices) = 3
    /\ out_step.n_events = 2 /\ RLCount = 2

\* C19: every slice that ends before the end of the step ends with an RL
\* word, so the boundary lies immediately after an RL.
C19_SplitAfterRL ==
    \A n \in DOMAIN slices :
        slices[n][2] < Len(words) =>
            /\ slices[n][2] > slices[n][1]
            /\ words[slices[n][2]].type = "RL"

(***************************************************************************)
(* One call of analyze_words_python on words of every decoded type         *)
(***************************************************************************)
MaxMixed == 4

\* RL, the FL words E (arg1 = 1), P (arg1 = 2) and X (arg1 = 3), and the
\* words GR, ER, RS, LV and ??, which carry arg1 = 1 as an E word does
MixedShapes == {"RL", "E", "P", "X", "GR", "ER", "RS", "LV", "??"}

MixedWord(shape, i) ==
    IF shape \in {"RL", "E", "P", "X"} THEN WordOf(shape, i)
    ELSE [type |-> shape, arg1 |-> 1, arg2 |-> 0, arg3 |-> 7 + i]

MixedInit ==
    /\ words \in UNION {{[i \in 1..n |-> MixedWord(sh[i], i)] : sh \in [1..n -> MixedShapes]} :
                           n \in 0..MaxMixed}
    /\ events = EmptyEvents
    /\ az_pc = "call" /\ word_idx = 0
    /\ cur_event_E = << >> /\ cur_event_P = << >>
    /\ az_n_events = 0 /\ e_counter = 0 /\ p_counter = 0
    /\ RunIdle /\ CodecIdle /\ FileIdle /\ RebuildIdle /\ ProcIdle /\ MainIdle

\* lines 11-88: the whole call
AnalyzeCall ==
    /\ az_pc = "call"
    /\ LET r == analyze_words_python(events, words)
       IN  events' = r.events /\ az_n_events' = r.n_events
    /\ word_idx' = Len(words)
    /\ az_pc' = "returned"
    /\ UNCHANGED <<cur_event_E, cur_event_P, e_counter, p_counter, words,
                   runVars, notClass>>

MixedNext == AnalyzeCall

SpecMixed == MixedInit /\ [][MixedNext]_vars

\* the RL words and the FL words with arg1 1 or 2, in their order
Counted(word) == word.type = "RL" \/ (word.type = "FL" /\ word.arg1 \in {1, 2})
Relevant(ws) == SelectSeq(ws, Counted)

\* C22: the buckets and the returned count of a call are those of the call
\* on the RL words and counted FL words alone: the GR, ER, RS, LV, ?? words
\* and the other FL words between them change nothing.
C22_OnlyCountedWords ==
    az_pc = "returned" =>
        /\ events = analyze_words_python(EmptyEvents, Relevant(words)).events
        /\ az_n_events = analyze_words_python(EmptyEvents, Relevant(words)).n_events

\* an E, an ER word with arg1 = 1, an FL with arg1 = 3, then the RL: one E
\* event
C22_Witness ==
    /\ az_pc = "returned" /\ Len(words) = 4
    /\ words[1].type = "FL" /\ words[1].arg1 = 1
    /\ words[2].type = "ER" /\ words[3].arg1 = 3 /\ words[4].type = "RL"
    /\ events["E"] = <<8>> /\ az_n_events = 1

(***************************************************************************)
(* Claims about one call of the classifier                                 *)
(***************************************************************************)
\* first position of the run that the word at position k (1-based) closes
RECURSIVE RunStart(_)
RunStart(k) ==
    IF k = 1 \/ words[k - 1].type = "RL" THEN k ELSE RunStart(k - 1)

\* arg3 of the FL words with arg1 = a at positions from..to, in order
RECURSIVE RunVals(_, _, _)
RunVals(from, to, a) ==
    IF from > to THEN << >>
    ELSE (IF words[from].type = "FL" /\ words[from].arg1 = a
          THEN <<words[from].arg3>> ELSE << >>) \o RunVals(from + 1, to, a)

\* the lookup table of the claim: bucket and record of a run, or "none"
TableRow(E, P) ==
    LET c == <<Len(E), Len(P)>>
    IN  CASE c = <<1, 0>> -> [bucket |-> "E", rec |-> E[1]]
          [] c = <<0, 1>> -> [bucket |-> "P", rec |-> P[1]]
          [] c = <<1, 1>> -> [bucket |-> "EP", rec |-> E \o P]
          [] c = <<2, 0>> -> [bucket |-> "EE", rec |-> E]
          [] c = <<0, 2>> -> [bucket |-> "PP", rec |-> P]
          [] c = <<2, 1>> -> [bucket |-> "EEP", rec |-> E \o P]
          [] c = <<3, 0>> -> [bucket |-> "EEE", rec |-> E]
          [] c = <<4, 0>> -> [bucket |-> "EEEE", rec |-> E]
          [] c = <<0, 0>> -> [bucket |-> "none", rec |-> << >>]
          [] OTHER -> [bucket |-> "other",
                       rec |-> Str(Len(E)) \o <<"E">> \o Str(Len(P)) \o <<"P", "|">>
                               \o Join(<<",">>, StrAll(E)) \o <<"|">>
                               \o Join(<<",">>, StrAll(P))]

\* the buckets the table gives for the RL words among the first k words
RECURSIVE TableEvents(_)
TableEvents(k) ==
    IF k = 0 THEN EmptyEvents
    ELSE IF words[k].type # "RL" THEN TableEvents(k - 1)
    ELSE LET row == TableRow(RunVals(RunStart(k), k - 1, 1),
                             RunVals(RunStart(k), k - 1, 2))
             ev == TableEvents(k - 1)
         IN  IF row.bucket = "none" THEN ev
             ELSE [ev EXCEPT ![row.bucket] = Append(@, row.rec)]

\* C3: at each RL word the run since the previous RL is classified by its
\* exact (E-count, P-count) with the fixed table, any other pair but (0,0)
\* goes to 'other' with the text <e>E<p>P|<E values>|<P values>, (0,0) adds
\* nothing; after the RL both buffers are empty and both counters are zero.
C3_LookupTable ==
    az_pc \in {"loop", "returned"} =>
        /\ events = TableEvents(word_idx)
        /\ (word_idx > 0 /\ words[word_idx].type = "RL") =>
               /\ cur_event_E = << >> /\ cur_event_P = << >>
               /\ e_counter = 0 /\ p_counter = 0

\* the run E E E P closed by an RL: 3E1P|8,9,10|11
C3_Witness ==
    /\ az_pc = "loop" /\ word_idx = 5 /\ words[5].type = "RL"
    /\ events["other"] = << <<"3", "E", "1", "P", "|", "8", ",", "9", ",",
                              "1", "0", "|", "1", "1">> >>
    /\ cur_event_E = << >> /\ e_counter = 0

\* the records of all buckets, each as its bucket and its index
Records == UNION {{<<t, k>> : k \in DOMAIN events[t]} : t \in EventTypes}

\* the RL words among the words seen so far, and the counted FL words of the
\* run that the RL at position i closes
ClosedRuns == {i \in 1..word_idx : words[i].type = "RL"}
CountedWords(i) ==
    {j \in RunStart(i)..(i - 1) : words[j].type = "FL" /\ words[j].arg1 \in {1, 2}}

\* the values listed in a text of the bucket other
OtherValues(text) ==
    LET parts == SplitBy(text, "|")
        listed == SplitBy(parts[2], ",") \o SplitBy(parts[3], ",")
    IN  {listed[n] : n \in DOMAIN listed}

\* record r holds the value v
Holds(r, v) ==
    LET rec == events[r[1]][r[2]]
    IN  IF r[1] \in {"E", "P"} THEN rec = v
        ELSE IF r[1] = "other" THEN Str(v) \in OtherValues(rec)
        ELSE \E n \in DOMAIN rec : rec[n] = v

\* C17: the buckets together hold one record for each RL seen so far that
\* closed a run with a counted FL word, and none for any other word; the
\* arg3 of each counted FL word of such a run is in one record, and that
\* record holds the arg3 of all of them.
C17_ExactlyOneBucket ==
    az_pc \in {"loop", "returned"} =>
        /\ Cardinality(Records) = Cardinality({i \in ClosedRuns : CountedWords(i) # {}})
        /\ \A i \in ClosedRuns : CountedWords(i) # {} =>
              \E r \in Records :
                  /\ \A j \in CountedWords(i) : Holds(r, words[j].arg3)
                  /\ \A q \in Records \ {r} :
                        \A j \in CountedWords(i) : ~Holds(q, words[j].arg3)

\* an RL with nothing to close, then the run E P P closed by an RL, which
\* goes to other
C17_Witness ==
    /\ az_pc = "returned" /\ az_n_events = 2
    /\ Len(events["other"]) = 1 /\ Cardinality(Records) = 1
    /\ words[1].type = "RL" /\ words[2].arg1 = 1

====
